---- MODULE Spec2Model ----
(***************************************************************************)
(* Model of goplaying: the Bubble Tea event loop of model.go (Update and   *)
(* the background commands it issues) and the configuration store of       *)
(* config.go (SafeConfig, the viper reload callback and the single-slot    *)
(* change channel).                                                        *)
(*                                                                         *)
(* Spec is the running program: Update handles one message at a time while *)
(* the commands it returned and the file watcher run beside it; there      *)
(* config.Get and config.Set are single steps.  SpecStore is SafeConfig    *)
(* alone, with concurrent callers, one lock operation or one field of a    *)
(* struct copy per step.  SpecClock follows the tick timer, fetch results  *)
(* and position queries against the wall clock; SpecArt is one call of     *)
(* processArtwork.                                                         *)
(*                                                                         *)
(* Strings that the code only tests for emptiness or equality and that     *)
(* stand for opaque data are tuples: <<>> is the empty string / nil slice; *)
(* raw artwork bytes are <<trackID, fmt>>, an encoded frame is             *)
(* <<trackID, frameIndex, frameCount>>, a color is a tuple of characters.  *)
(***************************************************************************)
EXTENDS Integers, Sequences, FiniteSets, Bags, TLC

VARIABLES
  m,                \* the Bubble Tea model struct (model.go:36-71)
  config,           \* SafeConfig.cfg, the stored snapshot (config.go:42-45)
  configChangeChan, \* number of notifications buffered in the channel (cap 1)
  watcherPc,        \* position of the viper OnConfigChange callback
  loopPc,           \* position of Update inside the a-key handler
  loopCfg,          \* the a-key handler's local cfg between Get and Set
  cmds,             \* bag of background commands issued and not yet run
  inbox,            \* bag of result messages not yet handled by Update
  tickTimers,       \* outstanding tea.Tick timers that deliver tickMsg
  fetchTimers,      \* outstanding tea.Tick timers that deliver fetchMsg
  watchers,         \* outstanding watchConfigCmd receivers
  events,           \* history: key presses, timer expiries and file changes so far
  last,             \* history of the step just taken: the message Update handled,
                    \*   the commands it returned, the media calls the step made,
                    \*   what became of the watcher's notification, and the
                    \*   message a background command delivered
  unhandled,        \* history: a reload wrote the store and no configReloadMsg read it since
  reloadCfg,        \* history: the snapshot the last valid reload installed
  handledLatest,    \* history: the last configReloadMsg handler read the values of reloadCfg
  seenCfg,          \* history: the snapshot the loop read at start or at the last configReloadMsg
  terminalKitty,    \* what supportsKittyGraphics() returned at startup
  alive,            \* the process is running (no panic has ended it)
  \* SafeConfig at the grain of its lock and of the struct copies (SpecStore)
  mu,               \* sc.mu: [w |-> write-locked, r |-> number of read locks held]
  heap,             \* memory: "sc" holds sc.cfg, a getter's name holds its local Config
  pcS,              \* position of each goroutine inside Set or Get
  idxS,             \* fields its struct copy has copied so far
  argS,             \* the cfg argument of a setter's Set call
  refS,             \* where the value a getter's Get returned lives
  callsS,           \* Set / Get calls each goroutine has started
  installed,        \* history: the initial snapshot and every Set argument so far
  lastS,            \* history: the operation the step just taken belongs to
  \* The model's clock-dependent fields and the wall clock (SpecClock)
  now,              \* time.Now(), in milliseconds since the program started
  lastPosition,     \* m.lastPosition, in milliseconds (model.go:44)
  lastPositionTime, \* m.lastPositionTime (model.go:45)
  duration,         \* m.duration, in seconds (model.go:43)
  tickDue,          \* the time at which the outstanding tick timer fires
  fetched,          \* history: what the last successful fetch result carried
  uninterrupted,    \* history: only playing ticks since the frame cache was stored
  lastK,            \* history: the step just taken and the position it displayed
  \* One call of a pure function: processArtwork (SpecArt), the chunking of
  \* encodeArtworkForKitty (SpecEnc), scrollText (SpecScroll),
  \* extractDominantColor (SpecColor)
  artIn,            \* the arguments of the call
  artOut            \* what the call returned

mainVars == <<m, config, configChangeChan, watcherPc, loopPc, loopCfg, cmds, inbox,
              tickTimers, fetchTimers, watchers, events, last, unhandled,
              reloadCfg, handledLatest, seenCfg, terminalKitty, alive>>

storeVars == <<mu, heap, pcS, idxS, argS, refS, callsS, installed, lastS>>

clockVars == <<now, lastPosition, lastPositionTime, duration, tickDue,
               fetched, uninterrupted, lastK>>

artVars == <<artIn, artOut>>

vars == <<mainVars, storeVars, clockVars, artVars>>

----------------------------------------------------------------------------
(* Bounds of the model *)

MaxInFlight == 2    \* background commands plus undelivered result messages
MaxEvents == 3      \* key presses, timer expiries and config file changes
MaxCalls == 2       \* Set or Get calls of one goroutine (SpecStore)
MaxRunes == 3       \* runes of a text handed to scrollText (SpecScroll)
MaxNow == 600       \* milliseconds the clock runs (SpecClock)
MaxTicks == 60      \* ticks counted by m.scrollTick for one track (SpecTicks)

----------------------------------------------------------------------------
(* Program constants *)

scrollInterval == 3
scrollPauseTicks == 30
scrollSeparatorLen == 5
tickRatePlaying == 100
tickRatePaused == 500
tickRateIdle == 1000
ChanCap == 1

\* updateVinylRotation: RPM / 60.0 * frameCount * 0.1 frames per tick, kept
\* exact as an integer count of 1/AccUnit frames.
AccUnit == 600

----------------------------------------------------------------------------
(* Data *)

EmptyStr == <<>>

Titles == {"Blue", "Red"}
Artists == {"X"}
Statuses == {"Playing", "Paused"}

\* strings.ToLower on the status strings the backends report
ToLower(s) ==
  CASE s = "Playing" -> "playing"
    [] s = "Paused" -> "paused"
    [] s = "Stopped" -> "stopped"
    [] OTHER -> s

\* fmt.Sprintf("%s|%s", title, artist)
TrackIDOf(title, artist) == title \o "|" \o artist

TrackIDs == {TrackIDOf(t, a) : t \in Titles, a \in Artists}

\* len([]rune(s))
RuneLen(s) == Len(s)

\* What GetArtwork can hand back for a track: nothing, a decodable image,
\* or bytes on which the image libraries panic.
RawArtworks(trackID) == {EmptyStr, <<trackID, "png">>, <<trackID, "bad">>}

Decodable(raw) == raw # EmptyStr /\ raw[2] = "png"

\* processArtwork panics on raw
Panics(raw) == raw # EmptyStr /\ raw[2] = "bad"

\* One encoded frame of raw at rotation {idx, n}
EncodeFrame(raw, idx, n) == <<raw[1], idx, n>>

\* The encoding a data fetch makes; which rotation it was given is not kept
EncodeFetched(raw) == <<raw[1], -1, 0>>

\* Color extracted from an image in auto mode
ExtractedColor == <<"#", "c", "0", "f", "f", "e", "e">>

Max2(a, b) == IF a > b THEN a ELSE b

----------------------------------------------------------------------------
(* Configuration *)

\* The defaults of initConfig.  artwork_vinyl_frames is read by model.go as
\* cfg.Artwork.VinylFrames; its default is kept small so that whole caches
\* fit the model.
DefaultConfig ==
  [ui_color |-> <<"2">>, ui_color_mode |-> "auto", ui_max_width |-> 45,
   artwork_enabled |-> TRUE, artwork_padding |-> 16,
   artwork_width_pixels |-> 300, artwork_width_columns |-> 14,
   artwork_vinyl_mode |-> FALSE, artwork_vinyl_rpm |-> 10,
   artwork_vinyl_frames |-> 2,
   text_max_length_with_art |-> 22, text_max_length_no_art |-> 36,
   timing_ui_refresh_ms |-> 100, timing_data_fetch_ms |-> 1000]

FrameCounts == {2, 3}
Rpms == {300}

\* isValidColor over the colors the model uses: 1-3 decimal digits that
\* parse to 0..255, or # followed by 3 or 6 hex digits.
Digits == {"0", "1", "2", "3", "4", "5", "6", "7", "8", "9"}
HexDigits == Digits \cup {"a", "b", "c", "d", "e", "f", "A", "B", "C", "D", "E", "F"}

DigitVal(c) ==
  CASE c = "0" -> 0 [] c = "1" -> 1 [] c = "2" -> 2 [] c = "3" -> 3
    [] c = "4" -> 4 [] c = "5" -> 5 [] c = "6" -> 6 [] c = "7" -> 7
    [] c = "8" -> 8 [] c = "9" -> 9 [] OTHER -> 0

RECURSIVE Atoi(_)
Atoi(s) == IF Len(s) = 0 THEN 0
           ELSE 10 * Atoi(SubSeq(s, 1, Len(s) - 1)) + DigitVal(s[Len(s)])

isValidColor(color) ==
  IF Len(color) > 0 /\ Len(color) <= 3
  THEN /\ \A i \in 1..Len(color) : color[i] \in Digits
       /\ Atoi(color) >= 0 /\ Atoi(color) <= 255
  ELSE IF Len(color) = 7 \/ Len(color) = 4
  THEN /\ color[1] = "#"
       /\ \A i \in 2..Len(color) : color[i] \in HexDigits
  ELSE FALSE

\* validateConfig: the set of fields reported invalid
validateConfig(cfg) ==
  (IF cfg.ui_max_width < 20 THEN {"ui.max_width"} ELSE {}) \cup
  (IF cfg.ui_color_mode # "manual" /\ cfg.ui_color_mode # "auto"
     THEN {"ui.color_mode"} ELSE {}) \cup
  (IF ~isValidColor(cfg.ui_color) THEN {"ui.color"} ELSE {}) \cup
  (IF cfg.artwork_padding < 0 \/ cfg.artwork_padding >= cfg.ui_max_width
     THEN {"artwork.padding"} ELSE {}) \cup
  (IF cfg.artwork_width_pixels <= 0 \/ cfg.artwork_width_pixels > 10000
     THEN {"artwork.width_pixels"} ELSE {}) \cup
  (IF cfg.artwork_width_columns <= 0 \/ cfg.artwork_width_columns > 100
     THEN {"artwork.width_columns"} ELSE {}) \cup
  (IF cfg.artwork_vinyl_rpm <= 0 \/ cfg.artwork_vinyl_rpm > 1000
     THEN {"artwork.vinyl_rpm"} ELSE {}) \cup
  (IF cfg.text_max_length_with_art <= 0 \/ cfg.text_max_length_with_art > 200
     THEN {"text.max_length_with_art"} ELSE {}) \cup
  (IF cfg.text_max_length_no_art <= 0 \/ cfg.text_max_length_no_art > 200
     THEN {"text.max_length_no_art"} ELSE {}) \cup
  (IF cfg.timing_ui_refresh_ms < 10 \/ cfg.timing_ui_refresh_ms > 5000
     THEN {"timing.ui_refresh_ms"} ELSE {}) \cup
  (IF cfg.timing_data_fetch_ms < 100 \/ cfg.timing_data_fetch_ms > 60000
     THEN {"timing.data_fetch_ms"} ELSE {})

\* Contents the config file can have when the watcher fires
FileConfigs ==
  {[DefaultConfig EXCEPT !.artwork_vinyl_mode = v,
                         !.artwork_vinyl_frames = n, !.artwork_vinyl_rpm = r]
     : v \in BOOLEAN, n \in FrameCounts, r \in Rpms}
  \cup {[DefaultConfig EXCEPT !.ui_color_mode = "manual"],
        [DefaultConfig EXCEPT !.artwork_vinyl_rpm = 0],
        [DefaultConfig EXCEPT !.artwork_width_columns = 20]}

\* Two snapshots that agree in every field other than artwork.enabled
SameButEnabled(c1, c2) ==
  [c1 EXCEPT !.artwork_enabled = TRUE] = [c2 EXCEPT !.artwork_enabled = TRUE]

InitConfigs ==
  {c \in FileConfigs : validateConfig(c) = {} /\ c.ui_color_mode = "auto"}
  \cup {[DefaultConfig EXCEPT !.artwork_enabled = FALSE]}

----------------------------------------------------------------------------
(* SafeConfig: goroutines, memory and the start state *)

\* The fields of Config, in the order of the struct
Fields ==
  <<"ui_color", "ui_color_mode", "ui_max_width",
    "artwork_enabled", "artwork_padding", "artwork_width_pixels",
    "artwork_width_columns", "artwork_vinyl_mode", "artwork_vinyl_rpm",
    "artwork_vinyl_frames",
    "text_max_length_with_art", "text_max_length_no_art",
    "timing_ui_refresh_ms", "timing_data_fetch_ms">>

\* Goroutines calling config.Set and config.Get
Setters == {"w1", "w2"}
Getters == {"r1", "r2"}

\* The argument of a setter's Set: every setter writes values of its own,
\* among them the fields at the two ends of the struct
SetArg(w) ==
  IF w = "w1"
  THEN [DefaultConfig EXCEPT !.ui_color = <<"1">>, !.ui_max_width = 41,
                             !.timing_data_fetch_ms = 1100]
  ELSE [DefaultConfig EXCEPT !.ui_color = <<"3">>, !.ui_max_width = 42,
                             !.timing_data_fetch_ms = 1200]

\* What a caller writes into the Config it got
ModifiedColor == <<"2">>
ModifiedMaxWidth == 100

StoreStart ==
  /\ mu = [w |-> FALSE, r |-> 0]
  /\ heap = [a \in {"sc"} \cup Getters |-> DefaultConfig]
  /\ pcS = [p \in Setters \cup Getters |-> "idle"]
  /\ idxS = [p \in Setters \cup Getters |-> 0]
  /\ argS = [p \in Setters |-> DefaultConfig]
  /\ refS = [p \in Getters |-> p]
  /\ callsS = [p \in Setters \cup Getters |-> 0]
  /\ installed = {DefaultConfig}
  /\ lastS = ""

\* processArtwork not called
NoCall ==
  [data |-> [base64 |-> FALSE, bytes |-> "empty", colorOutcome |-> "ok",
             encodeOutcome |-> "ok"],
   extractColor |-> FALSE, rotationAngle |-> 0]
NoResult == [color |-> EmptyStr, encoded |-> EmptyStr, err |-> "", done |-> FALSE]

\* The clock-dependent fields as initialModel leaves them (zero values)
NoQuery == [step |-> "", shown |-> 0]

ClockStart ==
  /\ now = 0
  /\ lastPosition = 0
  /\ lastPositionTime = 0
  /\ duration = 0
  /\ tickDue = 0
  /\ fetched = [position |-> 0, at |-> 0, playing |-> FALSE, duration |-> 0]
  /\ uninterrupted = FALSE
  /\ lastK = NoQuery
  /\ artIn = NoCall
  /\ artOut = NoResult

----------------------------------------------------------------------------
(* Messages and commands *)

NoMsg ==
  [kind |-> "none", key |-> "", err |-> "", title |-> "", artist |-> "",
   album |-> "", status |-> "", artwork |-> EmptyStr, rawArtwork |-> EmptyStr,
   color |-> EmptyStr, frames |-> <<>>, trackID |-> ""]

NoCmd ==
  [kind |-> "none", lastTrackID |-> "",
   supportsKitty |-> FALSE, raw |-> EmptyStr, trackID |-> "",
   frameCount |-> 0, interval |-> 0]

\* A step that is no Update call
NoUpdate ==
  [msg |-> NoMsg, cmds |-> <<>>, calls |-> <<>>, notify |-> "", result |-> NoMsg]

configReloadMsg == [NoMsg EXCEPT !.kind = "configReload"]
KeyMsg(k) == [NoMsg EXCEPT !.kind = "key", !.key = k]
tickMsg == [NoMsg EXCEPT !.kind = "tick"]
fetchMsg == [NoMsg EXCEPT !.kind = "fetchTimer"]

\* tickCmd: the adaptive tick rate
tickCmd(mm, cfg) ==
  [NoCmd EXCEPT !.kind = "tick",
     !.interval = IF mm.lastError # "" THEN tickRateIdle
                  ELSE IF ~mm.isPlaying THEN tickRatePaused
                  ELSE cfg.timing_ui_refresh_ms]

fetchCmd(cfg) ==
  [NoCmd EXCEPT !.kind = "fetchTimer", !.interval = cfg.timing_data_fetch_ms]

watchConfigCmdNotRearmed == NoCmd

watchConfigCmd == [NoCmd EXCEPT !.kind = "watch"]

\* m.fetchSongData(): the closure captures the model value it is called on
fetchSongData(mm) ==
  [NoCmd EXCEPT !.kind = "fetch", !.lastTrackID = mm.lastTrackID,
     !.supportsKitty = mm.supportsKitty]

generateVinylFramesCmd(rawArtwork, trackID, frameCount) ==
  [NoCmd EXCEPT !.kind = "build", !.raw = rawArtwork, !.trackID = trackID,
     !.frameCount = frameCount]

Count(seq, k) == Cardinality({i \in 1..Len(seq) : seq[i].kind = k})

RECURSIVE SeqToBag(_)
SeqToBag(seq) ==
  IF seq = <<>> THEN EmptyBag
  ELSE SetToBag({seq[1]}) (+) SeqToBag(Tail(seq))

BackgroundOf(seq) == SelectSeq(seq, LAMBDA c : c.kind \in {"fetch", "build"})

\* Commands running and results waiting, the configReloadMsg aside
InFlight(cs, ib) ==
  BagCardinality(cs) + BagCardinality(ib) - CopiesIn(configReloadMsg, ib)

----------------------------------------------------------------------------
(* Initial state: main() after initConfig() *)

InitModel(cfg, kitty) ==
  [songData |-> [Status |-> "", Title |-> "", Artist |-> "", Album |-> ""],
   color |-> cfg.ui_color,
   lastError |-> "",
   isPlaying |-> FALSE,
   artworkEncoded |-> EmptyStr,
   supportsKitty |-> kitty /\ cfg.artwork_enabled,
   lastTrackID |-> "",
   rawArtworkData |-> EmptyStr,
   vinylRotation |-> 0,
   vinylFrameCache |-> <<>>,
   vinylCacheTrackID |-> "",
   vinylAccumulator |-> 0,
   vinylCachedFrames |-> 0,
   scrollOffset |-> 0,
   scrollPause |-> 0,
   scrollTick |-> 0]

Init ==
  /\ config \in InitConfigs
  /\ \E kitty \in BOOLEAN : m = InitModel(config, kitty) /\ terminalKitty = kitty
  /\ configChangeChan = 0
  /\ watcherPc = "idle"
  /\ loopPc = "idle"
  /\ loopCfg = DefaultConfig
  /\ cmds = EmptyBag
  /\ inbox = EmptyBag
  /\ tickTimers = 1
  /\ fetchTimers = 1
  /\ watchers = 1
  /\ events = 0
  /\ last = NoUpdate
  /\ unhandled = FALSE
  /\ reloadCfg = config
  /\ handledLatest = TRUE
  /\ seenCfg = config
  /\ alive = TRUE
  /\ StoreStart
  /\ ClockStart

----------------------------------------------------------------------------
(* The Bubble Tea runtime: what happens to the value Update returns *)

\* Update returned (mNew, tea.Batch(ret...)) after taking one message of
\* kind `consumed` out of its timer or the inbox.
Return(mNew, ret, msg, calls) ==
  /\ alive
  /\ m' = mNew
  /\ last' = [msg |-> msg, cmds |-> ret, calls |-> calls, notify |-> "",
              result |-> NoMsg]
  /\ events' = events + (IF msg.kind \in {"tick", "fetchTimer"} \/ msg.key \in {"p", "n", "b"}
                         THEN 1 ELSE 0)
  /\ cmds' = cmds (+) SeqToBag(BackgroundOf(ret))
  /\ tickTimers' = tickTimers - (IF msg.kind = "tick" THEN 1 ELSE 0)
                     + Count(ret, "tick")
  /\ fetchTimers' = fetchTimers - (IF msg.kind = "fetchTimer" THEN 1 ELSE 0)
                      + Count(ret, "fetchTimer")
  /\ watchers' = watchers + Count(ret, "watch")
  /\ inbox' = IF msg.kind \in {"songData", "vinylFrames", "configReload"}
              THEN inbox (-) SetToBag({msg}) ELSE inbox
  /\ InFlight(cmds', inbox') <= Max2(MaxInFlight, InFlight(cmds, inbox))
  /\ UNCHANGED <<alive, storeVars, clockVars, artVars>>

LoopIdle == loopPc = "idle"

\* The environment may still act
MayAct == events < MaxEvents

----------------------------------------------------------------------------
(* Update: tea.KeyMsg *)

ControlOf(k) ==
  CASE k = "p" -> "play-pause"
    [] k = "n" -> "next"
    [] k = "b" -> "previous"

\* case "p", "n", "b" returning early, with no fetch, when Control fails
KeyControlNoFetchOnError(k, controlErr) ==
  IF controlErr # ""
  THEN Return([m EXCEPT !.lastError = controlErr], <<>>, KeyMsg(k), <<ControlOf(k)>>)
  ELSE Return(m, <<fetchSongData(m)>>, KeyMsg(k), <<ControlOf(k)>>)

\* case "p", "n", "b": Control may fail; either way fetch at once
KeyControl(k, controlErr) ==
  LET m1 == IF controlErr # "" THEN [m EXCEPT !.lastError = controlErr] ELSE m
  IN Return(m1, <<fetchSongData(m1)>>, KeyMsg(k), <<ControlOf(k)>>)

KeyPlayback ==
  /\ LoopIdle
  /\ MayAct
  /\ \E k \in {"p", "n", "b"}, controlErr \in {"", "control err"} :
       KeyControl(k, controlErr)
  /\ UNCHANGED <<config, configChangeChan, watcherPc, loopPc, loopCfg,
                 unhandled, reloadCfg, handledLatest, seenCfg, terminalKitty>>

\* case "a", up to and including cfg := config.Get()
KeyArtworkGet ==
  /\ alive
  /\ LoopIdle
  /\ MayAct
  /\ events' = events + 1
  /\ loopPc' = "key_a"
  /\ loopCfg' = config
  /\ last' = NoUpdate
  /\ UNCHANGED <<m, config, configChangeChan, watcherPc, cmds, inbox,
                 tickTimers, fetchTimers, watchers, unhandled, reloadCfg,
                 handledLatest, seenCfg, terminalKitty, alive, storeVars, clockVars, artVars>>

\* case "a", from cfg.Artwork.Enabled = !cfg.Artwork.Enabled to the return
KeyArtworkSet ==
  /\ loopPc = "key_a"
  /\ LET cfg == [loopCfg EXCEPT !.artwork_enabled = ~loopCfg.artwork_enabled]
     IN /\ config' = cfg
        /\ IF ~cfg.artwork_enabled
           THEN Return([m EXCEPT !.artworkEncoded = EmptyStr], <<>>, KeyMsg("a"), <<>>)
           ELSE IF m.supportsKitty
           THEN LET m1 == [m EXCEPT !.lastTrackID = ""]
                IN Return(m1, <<fetchSongData(m1)>>, KeyMsg("a"), <<>>)
           ELSE Return(m, <<>>, KeyMsg("a"), <<>>)
  /\ loopPc' = "idle"
  /\ loopCfg' = DefaultConfig
  /\ UNCHANGED <<configChangeChan, watcherPc, unhandled, reloadCfg,
                 handledLatest, seenCfg, terminalKitty>>

----------------------------------------------------------------------------
(* Update: configReloadMsg *)

UpdateConfigReload ==
  LET cfg == config
      m1 == IF cfg.ui_color_mode = "manual"
            THEN [m EXCEPT !.color = cfg.ui_color] ELSE m
      changed == /\ cfg.artwork_vinyl_mode
                 /\ Len(m1.vinylFrameCache) > 0
                 /\ m1.vinylCachedFrames # cfg.artwork_vinyl_frames
      m2 == IF changed
            THEN [m1 EXCEPT !.vinylFrameCache = <<>>, !.vinylCacheTrackID = "",
                            !.vinylCachedFrames = 0, !.vinylRotation = 0,
                            !.vinylAccumulator = 0]
            ELSE m1
      build == generateVinylFramesCmd(m2.rawArtworkData, m2.lastTrackID,
                                      cfg.artwork_vinyl_frames)
  IN
  /\ LoopIdle
  /\ CopiesIn(configReloadMsg, inbox) > 0
  /\ unhandled' = FALSE
  /\ handledLatest' = SameButEnabled(cfg, reloadCfg)
  /\ seenCfg' = cfg
  /\ UNCHANGED terminalKitty
  /\ IF ~cfg.artwork_vinyl_mode /\ Len(m1.vinylFrameCache) > 0
     THEN LET m3 == [m1 EXCEPT !.vinylFrameCache = <<>>, !.vinylCacheTrackID = "",
                               !.vinylCachedFrames = 0, !.lastTrackID = ""]
          IN Return(m3, <<watchConfigCmd, fetchSongData(m3)>>, configReloadMsg, <<>>)
     ELSE IF changed /\ Len(m2.rawArtworkData) > 0 /\ m2.lastTrackID # ""
     THEN Return(m2, <<watchConfigCmd, build>>, configReloadMsg, <<>>)
     ELSE IF /\ cfg.artwork_vinyl_mode /\ Len(m2.vinylFrameCache) = 0
             /\ Len(m2.rawArtworkData) > 0 /\ m2.lastTrackID # ""
     THEN Return([m2 EXCEPT !.vinylCacheTrackID = ""], <<watchConfigCmd, build>>,
                 configReloadMsg, <<>>)
     ELSE IF ~cfg.artwork_enabled /\ m2.artworkEncoded # EmptyStr
     THEN Return([m2 EXCEPT !.artworkEncoded = EmptyStr, !.lastTrackID = ""],
                 <<watchConfigCmd>>, configReloadMsg, <<>>)
     ELSE IF cfg.artwork_enabled /\ m2.artworkEncoded = EmptyStr /\ m2.supportsKitty
     THEN LET m3 == [m2 EXCEPT !.lastTrackID = ""]
          IN Return(m3, <<watchConfigCmd, fetchSongData(m3)>>, configReloadMsg, <<>>)
     ELSE Return(m2, <<watchConfigCmd>>, configReloadMsg, <<>>)
  /\ UNCHANGED <<config, configChangeChan, watcherPc, loopPc, loopCfg,
                 reloadCfg>>

----------------------------------------------------------------------------
(* Update: tickMsg *)

\* the loop `for m.vinylAccumulator >= 1.0` of updateVinylRotation
RECURSIVE AdvanceFrames(_, _)
AdvanceFrames(mm, frameCount) ==
  IF mm.vinylAccumulator >= AccUnit
  THEN LET rot == (mm.vinylRotation + 1) % frameCount
       IN AdvanceFrames([mm EXCEPT !.vinylRotation = rot,
                                   !.vinylAccumulator = @ - AccUnit,
                                   !.artworkEncoded = mm.vinylFrameCache[rot + 1]],
                        frameCount)
  ELSE mm

updateVinylRotation(mm, cfg) ==
  LET frameCount == cfg.artwork_vinyl_frames
  IN IF ~cfg.artwork_vinyl_mode \/ ~mm.isPlaying
        \/ Len(mm.vinylFrameCache) # frameCount
     THEN mm
     ELSE AdvanceFrames([mm EXCEPT !.vinylAccumulator =
                                      @ + cfg.artwork_vinyl_rpm * frameCount],
                        frameCount)

\* the text scrolling part with the test of scrollInterval left out
scrollStepEveryTick(mm, cfg) ==
  LET maxLen == IF ~mm.supportsKitty \/ ~cfg.artwork_enabled
                THEN cfg.text_max_length_no_art
                ELSE cfg.text_max_length_with_art
      longestLen == Max2(Max2(RuneLen(mm.songData.Title),
                              RuneLen(mm.songData.Artist)),
                         RuneLen(mm.songData.Album))
      loopPoint == longestLen + scrollSeparatorLen
  IN IF longestLen > maxLen
     THEN IF mm.scrollPause > 0
          THEN [mm EXCEPT !.scrollPause = @ - 1]
          ELSE IF mm.scrollOffset + 1 >= loopPoint
          THEN [mm EXCEPT !.scrollOffset = 0, !.scrollPause = scrollPauseTicks]
          ELSE [mm EXCEPT !.scrollOffset = @ + 1]
     ELSE [mm EXCEPT !.scrollOffset = 0, !.scrollPause = 0]

\* the text scrolling part of the tickMsg case
scrollStep(mm, cfg) ==
  LET maxLen == IF ~mm.supportsKitty \/ ~cfg.artwork_enabled
                THEN cfg.text_max_length_no_art
                ELSE cfg.text_max_length_with_art
      longestLen == Max2(Max2(RuneLen(mm.songData.Title),
                              RuneLen(mm.songData.Artist)),
                         RuneLen(mm.songData.Album))
      loopPoint == longestLen + scrollSeparatorLen
  IN IF longestLen > maxLen
     THEN IF mm.scrollPause > 0
          THEN [mm EXCEPT !.scrollPause = @ - 1]
          ELSE IF mm.scrollTick % scrollInterval = 0
          THEN IF mm.scrollOffset + 1 >= loopPoint
               THEN [mm EXCEPT !.scrollOffset = 0, !.scrollPause = scrollPauseTicks]
               ELSE [mm EXCEPT !.scrollOffset = @ + 1]
          ELSE mm
     ELSE [mm EXCEPT !.scrollOffset = 0, !.scrollPause = 0]

\* The model after the tickMsg case
tickHandled(mm, cfg) ==
  LET m1 == [mm EXCEPT !.scrollTick = @ + 1]
      m2 == updateVinylRotation(m1, cfg)
  IN scrollStep(m2, cfg)

UpdateTick ==
  LET cfg == config
      m3 == tickHandled(m, cfg)
  IN
  /\ LoopIdle
  /\ tickTimers > 0
  /\ MayAct
  /\ Return(m3, <<tickCmd(m3, cfg)>>, tickMsg, <<>>)
  /\ UNCHANGED <<config, configChangeChan, watcherPc, loopPc, loopCfg,
                 unhandled, reloadCfg, handledLatest, seenCfg, terminalKitty>>

----------------------------------------------------------------------------
(* Update: fetchMsg *)

\* the fetchMsg case giving up after an error: no timer, no fetch
UpdateFetchStopsAfterError ==
  /\ LoopIdle
  /\ fetchTimers > 0
  /\ MayAct
  /\ Return(m, IF m.lastError # "" THEN <<>>
               ELSE <<fetchCmd(config), fetchSongData(m)>>, fetchMsg, <<>>)
  /\ UNCHANGED <<config, configChangeChan, watcherPc, loopPc, loopCfg,
                 unhandled, reloadCfg, handledLatest, seenCfg, terminalKitty>>

UpdateFetch ==
  /\ LoopIdle
  /\ fetchTimers > 0
  /\ MayAct
  /\ Return(m, <<fetchCmd(config), fetchSongData(m)>>, fetchMsg, <<>>)
  /\ UNCHANGED <<config, configChangeChan, watcherPc, loopPc, loopCfg,
                 unhandled, reloadCfg, handledLatest, seenCfg, terminalKitty>>

----------------------------------------------------------------------------
(* Update: songDataMsg *)

\* the error branch without m.artworkEncoded = ""
songDataErrorKeepsArtwork(mm, msg) ==
  [mm EXCEPT !.lastError = msg.err, !.lastTrackID = ""]

songDataError(mm, msg) ==
  [mm EXCEPT !.lastError = msg.err, !.artworkEncoded = EmptyStr,
             !.lastTrackID = ""]

\* if trackID != m.lastTrackID { reset scroll, clear the vinyl cache }
songDataTrackChange(mm, trackID) ==
  IF trackID # mm.lastTrackID
  THEN [mm EXCEPT !.scrollOffset = 0, !.scrollPause = scrollPauseTicks,
                  !.scrollTick = 0, !.vinylFrameCache = <<>>,
                  !.vinylCacheTrackID = ""]
  ELSE mm

\* if msg.artwork != "" { m.artworkEncoded = msg.artwork; m.lastTrackID = trackID }
songDataArtwork(mm, msg, trackID) ==
  IF msg.artwork # EmptyStr
  THEN [mm EXCEPT !.artworkEncoded = msg.artwork, !.lastTrackID = trackID]
  ELSE mm

\* The model after the success branch of the songDataMsg case
songDataStored(mm, cfg, msg) ==
  LET trackID == TrackIDOf(msg.title, msg.artist)
      m1 == songDataTrackChange(mm, trackID)
      m2 == [m1 EXCEPT !.songData = [Title |-> msg.title, Artist |-> msg.artist,
                                     Album |-> msg.album, Status |-> msg.status],
                       !.color = IF cfg.ui_color_mode = "auto" /\ msg.color # EmptyStr
                                 THEN msg.color ELSE @,
                       !.isPlaying = (ToLower(msg.status) = "playing"),
                       !.lastError = ""]
      m3 == songDataArtwork(m2, msg, trackID)
      m4 == IF Len(msg.rawArtwork) > 0
            THEN [m3 EXCEPT !.rawArtworkData = msg.rawArtwork] ELSE m3
  IN IF /\ Len(msg.rawArtwork) > 0
        /\ cfg.artwork_vinyl_mode
        /\ trackID # m4.vinylCacheTrackID
     THEN [m4 EXCEPT !.vinylCacheTrackID = trackID]
     ELSE m4

\* The commands the success branch returns: a frame build when the result
\* carries raw artwork for a track whose frames were not requested yet
songDataCmds(mm, cfg, msg) ==
  LET trackID == TrackIDOf(msg.title, msg.artist)
  IN IF /\ Len(msg.rawArtwork) > 0
        /\ cfg.artwork_vinyl_mode
        /\ trackID # songDataTrackChange(mm, trackID).vinylCacheTrackID
     THEN <<generateVinylFramesCmd(msg.rawArtwork, trackID,
                                   cfg.artwork_vinyl_frames)>>
     ELSE <<>>

UpdateSongData(msg) ==
  /\ LoopIdle
  /\ msg.kind = "songData"
  /\ IF msg.err # ""
     THEN Return(songDataError(m, msg), <<>>, msg, <<>>)
     ELSE Return(songDataStored(m, config, msg), songDataCmds(m, config, msg),
                 msg, <<>>)
  /\ UNCHANGED <<config, configChangeChan, watcherPc, loopPc, loopCfg,
                 unhandled, reloadCfg, handledLatest, seenCfg, terminalKitty>>

----------------------------------------------------------------------------
(* Update: vinylFramesMsg *)

\* if msg.trackID == m.lastTrackID && len(msg.frames) > 0
vinylFramesAccepted(mm, msg) ==
  msg.trackID = mm.lastTrackID /\ Len(msg.frames) > 0

\* the vinylFramesMsg case without "m.vinylRotation = 0"
vinylFramesStoredKeepsRotation(mm, msg) ==
  IF vinylFramesAccepted(mm, msg)
  THEN [mm EXCEPT !.vinylFrameCache = msg.frames,
                  !.vinylCachedFrames = Len(msg.frames),
                  !.vinylAccumulator = 0,
                  !.artworkEncoded = msg.frames[1]]
  ELSE mm

\* The model after the vinylFramesMsg case
vinylFramesStored(mm, msg) ==
  IF vinylFramesAccepted(mm, msg)
  THEN [mm EXCEPT !.vinylFrameCache = msg.frames,
                  !.vinylCachedFrames = Len(msg.frames),
                  !.vinylRotation = 0,
                  !.vinylAccumulator = 0,
                  !.artworkEncoded = msg.frames[1]]
  ELSE mm

UpdateVinylFrames(msg) ==
  /\ LoopIdle
  /\ msg.kind = "vinylFrames"
  /\ Return(vinylFramesStored(m, msg), <<>>, msg, <<>>)
  /\ UNCHANGED <<config, configChangeChan, watcherPc, loopPc, loopCfg,
                 unhandled, reloadCfg, handledLatest, seenCfg, terminalKitty>>

----------------------------------------------------------------------------
(* Background commands *)

BackgroundUnchanged ==
  UNCHANGED <<m, events, config, configChangeChan, watcherPc, loopPc, loopCfg,
                 tickTimers, fetchTimers, watchers, unhandled, reloadCfg,
                 handledLatest, seenCfg, terminalKitty, storeVars, clockVars, artVars>>

\* A command that made the media calls `calls` delivers msg
Deliver(msg, calls) ==
  /\ inbox' = inbox (+) SetToBag({msg})
  /\ last' = [NoUpdate EXCEPT !.calls = calls, !.result = msg]

\* The media calls every fetch makes, in order
MetadataCalls == <<"GetMetadata", "GetDuration", "GetPosition">>

\* The artwork part of the fetchSongData closure, for what GetArtwork returns
\* when it is called (artworkData) and the snapshot cfg read at the start.
\* A panic of processArtwork is recovered: artwork and color stay empty.
fetchArtwork(c, cfg, title, artist, status, artworkData) ==
  LET trackID == TrackIDOf(title, artist)
      skipArtworkFetch == (ToLower(status) # "playing") /\ (trackID = c.lastTrackID)
      data == IF skipArtworkFetch THEN EmptyStr ELSE artworkData
      process == /\ Len(data) > 0
                 /\ (trackID # c.lastTrackID \/ c.lastTrackID = "")
      encoded == process /\ Decodable(data) /\ ~Panics(data)
      shouldExtractColor == cfg.ui_color_mode = "auto"
  IN IF c.supportsKitty /\ cfg.artwork_enabled
     THEN [artwork |-> IF encoded THEN EncodeFetched(data) ELSE EmptyStr,
           rawArtwork |-> data,
           color |-> IF encoded /\ shouldExtractColor THEN ExtractedColor ELSE EmptyStr,
           calls |-> IF skipArtworkFetch THEN <<>> ELSE <<"GetArtwork">>,
           recovered |-> process /\ Panics(data)]
     ELSE [artwork |-> EmptyStr, rawArtwork |-> EmptyStr, color |-> EmptyStr,
           calls |-> <<>>, recovered |-> FALSE]

\* One run of the closure returned by fetchSongData: one of the three
\* metadata calls fails, or all succeed and the artwork part runs
FetchRun ==
  /\ alive
  /\ \E c \in BagToSet(cmds) :
       /\ c.kind = "fetch"
       /\ cmds' = cmds (-) SetToBag({c})
       /\ \/ \E n \in 1..Len(MetadataCalls) :
               Deliver([NoMsg EXCEPT !.kind = "songData", !.err = "err"],
                       SubSeq(MetadataCalls, 1, n))
          \/ \E title \in Titles, artist \in Artists, status \in Statuses :
               \E artworkData \in RawArtworks(TrackIDOf(title, artist)) :
                 LET a == fetchArtwork(c, config, title, artist, status, artworkData)
                 IN Deliver([NoMsg EXCEPT
                        !.kind = "songData", !.title = title, !.artist = artist,
                        !.album = "LP", !.status = status,
                        !.artwork = a.artwork, !.rawArtwork = a.rawArtwork,
                        !.color = a.color],
                      MetadataCalls \o a.calls)
  /\ UNCHANGED alive
  /\ BackgroundUnchanged

\* The frames the closure returned by generateVinylFramesCmd makes
vinylFrames(c) ==
  [i \in 1..c.frameCount |->
     IF Decodable(c.raw) THEN EncodeFrame(c.raw, i - 1, c.frameCount)
     ELSE EmptyStr]

\* One run of that closure.  Nothing recovers a panic of processArtwork
\* here: it ends the goroutine and with it the process.
BuildRun ==
  /\ alive
  /\ \E c \in BagToSet(cmds) :
       /\ c.kind = "build"
       /\ cmds' = cmds (-) SetToBag({c})
       /\ IF c.frameCount > 0 /\ Panics(c.raw)
          THEN /\ alive' = FALSE
               /\ inbox' = inbox
               /\ last' = NoUpdate
          ELSE /\ alive' = TRUE
               /\ Deliver([NoMsg EXCEPT !.kind = "vinylFrames",
                                        !.frames = vinylFrames(c),
                                        !.trackID = c.trackID], <<>>)
  /\ BackgroundUnchanged

\* The closure returned by watchConfigCmd: <-configChangeChan
WatchRecv ==
  /\ alive
  /\ watchers > 0
  /\ configChangeChan > 0
  /\ configChangeChan' = configChangeChan - 1
  /\ watchers' = watchers - 1
  /\ inbox' = inbox (+) SetToBag({configReloadMsg})
  /\ last' = NoUpdate
  /\ UNCHANGED <<m, config, watcherPc, loopPc, loopCfg, cmds, tickTimers,
                 fetchTimers, events, unhandled, reloadCfg, handledLatest, seenCfg, terminalKitty,
                 alive, storeVars, clockVars, artVars>>

----------------------------------------------------------------------------
(* The file watcher: the viper.OnConfigChange callback *)

\* The callback without its return on a validation error: the rejected
\* configuration is stored and notified like a valid one
OnConfigChangeSetUnvalidated ==
  /\ alive
  /\ watcherPc = "idle"
  /\ MayAct
  /\ events' = events + 1
  /\ \E newCfg \in FileConfigs :
       /\ config' = newCfg
       /\ watcherPc' = "notify"
       /\ unhandled' = TRUE
       /\ reloadCfg' = newCfg
       /\ last' = IF validateConfig(newCfg) # {}
                  THEN [NoUpdate EXCEPT !.notify = "rejected"] ELSE NoUpdate
  /\ UNCHANGED <<m, configChangeChan, loopPc, loopCfg, cmds, inbox, tickTimers,
                 fetchTimers, watchers, handledLatest, seenCfg, terminalKitty, alive, storeVars, clockVars, artVars>>

\* Unmarshal, validate, and config.Set(newCfg) when valid; last.notify tells
\* when the callback returned on a validation error
OnConfigChangeSet ==
  /\ alive
  /\ watcherPc = "idle"
  /\ MayAct
  /\ events' = events + 1
  /\ \E newCfg \in FileConfigs :
       IF validateConfig(newCfg) # {}
       THEN /\ last' = [NoUpdate EXCEPT !.notify = "rejected"]
            /\ UNCHANGED <<config, watcherPc, unhandled, reloadCfg>>
       ELSE /\ config' = newCfg
            /\ watcherPc' = "notify"
            /\ unhandled' = TRUE
            /\ reloadCfg' = newCfg
            /\ last' = NoUpdate
  /\ UNCHANGED <<m, configChangeChan, loopPc, loopCfg, cmds, inbox, tickTimers,
                 fetchTimers, watchers, handledLatest, seenCfg, terminalKitty, alive, storeVars, clockVars, artVars>>

\* a send with no default case on a channel that never fills
sendUnbounded(ch) == ch + 1

\* select { case configChangeChan <- struct{}{}: default: }
trySend(ch) == IF ch < ChanCap THEN ch + 1 ELSE ch

OnConfigChangeNotify ==
  /\ alive
  /\ watcherPc = "notify"
  /\ configChangeChan' = trySend(configChangeChan)
  /\ watcherPc' = "idle"
  /\ last' = [NoUpdate EXCEPT !.notify = IF configChangeChan' > configChangeChan
                                         THEN "sent" ELSE "dropped"]
  /\ UNCHANGED <<m, config, loopPc, loopCfg, cmds, inbox, tickTimers,
                 fetchTimers, watchers, events, unhandled, reloadCfg,
                 handledLatest, seenCfg, terminalKitty, alive, storeVars, clockVars, artVars>>

----------------------------------------------------------------------------

Next ==
  \/ KeyPlayback
  \/ KeyArtworkGet
  \/ KeyArtworkSet
  \/ UpdateConfigReload
  \/ UpdateTick
  \/ UpdateFetch
  \/ \E msg \in BagToSet(inbox) : UpdateSongData(msg)
  \/ \E msg \in BagToSet(inbox) : UpdateVinylFrames(msg)
  \/ FetchRun
  \/ BuildRun
  \/ WatchRecv
  \/ OnConfigChangeSet
  \/ OnConfigChangeNotify

Spec == Init /\ [][Next]_vars

----------------------------------------------------------------------------
(* SafeConfig.Set and SafeConfig.Get, one lock operation or one field of a *)
(* struct copy per step                                                    *)

\* sc.mu.Lock() can return: no writer and no reader holds the mutex
CanLock == ~mu.w /\ mu.r = 0

\* an RLock that does not wait for the writer
CanRLockDespiteWriter == TRUE

\* sc.mu.RLock() can return: no writer holds the mutex
CanRLock == ~mu.w

\* a Get that hands out the address of sc.cfg
ResultAddrOfStore(r) == "sc"

\* Get returns Config by value: the result is a variable of the caller
ResultAddr(r) == r

\* dst.f = src.f for the next field f of a struct copy by goroutine p
CopyField(p, dst, src) ==
  LET f == Fields[idxS[p] + 1]
  IN /\ heap' = [heap EXCEPT ![dst] = [@ EXCEPT ![f] = src[f]]]
     /\ idxS' = [idxS EXCEPT ![p] = @ + 1]

\* Set(cfg): sc.mu.Lock()
SetLock(w) ==
  /\ pcS[w] = "idle"
  /\ callsS[w] < MaxCalls
  /\ CanLock
  /\ mu' = [mu EXCEPT !.w = TRUE]
  /\ pcS' = [pcS EXCEPT ![w] = "copy"]
  /\ idxS' = [idxS EXCEPT ![w] = 0]
  /\ argS' = [argS EXCEPT ![w] = SetArg(w)]
  /\ callsS' = [callsS EXCEPT ![w] = @ + 1]
  /\ installed' = installed \cup {SetArg(w)}
  /\ lastS' = "set"
  /\ UNCHANGED <<heap, refS, mainVars, clockVars, artVars>>

\* Set(cfg): sc.cfg = cfg, one field
SetAssign(w) ==
  /\ pcS[w] = "copy"
  /\ idxS[w] < Len(Fields)
  /\ CopyField(w, "sc", argS[w])
  /\ lastS' = "set"
  /\ UNCHANGED <<mu, pcS, argS, refS, callsS, installed, mainVars, clockVars, artVars>>

\* Set(cfg): the deferred sc.mu.Unlock()
SetUnlock(w) ==
  /\ pcS[w] = "copy"
  /\ idxS[w] = Len(Fields)
  /\ mu' = [mu EXCEPT !.w = FALSE]
  /\ pcS' = [pcS EXCEPT ![w] = "idle"]
  /\ lastS' = "set"
  /\ UNCHANGED <<heap, idxS, argS, refS, callsS, installed, mainVars, clockVars, artVars>>

\* Get(): sc.mu.RLock()
GetRLock(r) ==
  /\ pcS[r] = "idle"
  /\ callsS[r] < MaxCalls
  /\ CanRLock
  /\ mu' = [mu EXCEPT !.r = @ + 1]
  /\ pcS' = [pcS EXCEPT ![r] = "copy"]
  /\ idxS' = [idxS EXCEPT ![r] = 0]
  /\ refS' = [refS EXCEPT ![r] = ResultAddr(r)]
  /\ callsS' = [callsS EXCEPT ![r] = @ + 1]
  /\ lastS' = "get"
  /\ UNCHANGED <<heap, argS, installed, mainVars, clockVars, artVars>>

\* Get(): return sc.cfg, one field of the copy into the result
GetCopy(r) ==
  /\ pcS[r] = "copy"
  /\ idxS[r] < Len(Fields)
  /\ CopyField(r, refS[r], heap["sc"])
  /\ lastS' = "get"
  /\ UNCHANGED <<mu, pcS, argS, refS, callsS, installed, mainVars, clockVars, artVars>>

\* Get(): the deferred sc.mu.RUnlock(); the caller now has the result
GetRUnlock(r) ==
  /\ pcS[r] = "copy"
  /\ idxS[r] = Len(Fields)
  /\ mu' = [mu EXCEPT !.r = @ - 1]
  /\ pcS' = [pcS EXCEPT ![r] = "returned"]
  /\ lastS' = "returned"
  /\ UNCHANGED <<heap, idxS, argS, refS, callsS, installed, mainVars, clockVars, artVars>>

\* The caller writes fields of the Config it got:
\* retrieved1.UI.Color = "2"; retrieved1.UI.MaxWidth = 100
MutateCopy(r) ==
  /\ pcS[r] = "returned"
  /\ heap' = [heap EXCEPT ![refS[r]] = [@ EXCEPT !.ui_color = ModifiedColor,
                                               !.ui_max_width = ModifiedMaxWidth]]
  /\ pcS' = [pcS EXCEPT ![r] = "idle"]
  /\ lastS' = "mutate"
  /\ UNCHANGED <<mu, idxS, argS, refS, callsS, installed, mainVars, clockVars, artVars>>

\* The caller only reads the Config it got
UseCopy(r) ==
  /\ pcS[r] = "returned"
  /\ pcS' = [pcS EXCEPT ![r] = "idle"]
  /\ lastS' = "use"
  /\ UNCHANGED <<mu, heap, idxS, argS, refS, callsS, installed, mainVars, clockVars, artVars>>

InitStore ==
  /\ StoreStart
  /\ ClockStart
  /\ config = DefaultConfig
  /\ m = InitModel(DefaultConfig, FALSE)
  /\ terminalKitty = FALSE
  /\ configChangeChan = 0
  /\ watcherPc = "idle"
  /\ loopPc = "idle"
  /\ loopCfg = DefaultConfig
  /\ cmds = EmptyBag
  /\ inbox = EmptyBag
  /\ tickTimers = 1
  /\ fetchTimers = 1
  /\ watchers = 1
  /\ events = 0
  /\ last = NoUpdate
  /\ unhandled = FALSE
  /\ reloadCfg = DefaultConfig
  /\ handledLatest = TRUE
  /\ seenCfg = config
  /\ alive = TRUE

NextStore ==
  \/ \E w \in Setters : SetLock(w)
  \/ \E w \in Setters : SetAssign(w)
  \/ \E w \in Setters : SetUnlock(w)
  \/ \E r \in Getters : GetRLock(r)
  \/ \E r \in Getters : GetCopy(r)
  \/ \E r \in Getters : GetRUnlock(r)
  \/ \E r \in Getters : MutateCopy(r)
  \/ \E r \in Getters : UseCopy(r)

SpecStore == InitStore /\ [][NextStore]_vars

----------------------------------------------------------------------------
(* SpecClock: the tick timer, fetch results and position queries against   *)
(* the wall clock.  It starts when the loop has stored the frame cache of  *)
(* a playing track and follows Update for tickMsg and songDataMsg and the  *)
(* position View computes; the commands Update returns are not followed.   *)
(* Times are in milliseconds, m.duration in seconds as in the code.        *)

\* How far the clock moves in one step, positions and durations the player
\* reports, and the ui_refresh_ms values a config file holds
Delays == {100, 300}
Positions == {0, 2000}
Durations == {0, 1}
RefreshRates == {5, 100, 200, 2000, 5001}

ClockFiles ==
  {[DefaultConfig EXCEPT !.artwork_vinyl_mode = TRUE, !.artwork_vinyl_frames = 8,
                         !.artwork_vinyl_rpm = 60, !.timing_ui_refresh_ms = r,
                         !.text_max_length_with_art = 2,
                         !.text_max_length_no_art = 2]
     : r \in RefreshRates}

applyDefaultsWidePadding(cfg, invalid) ==
  [cfg EXCEPT
     !.ui_max_width = IF "ui.max_width" \in invalid THEN 45 ELSE @,
     !.ui_color_mode = IF "ui.color_mode" \in invalid THEN "auto" ELSE @,
     !.ui_color = IF "ui.color" \in invalid THEN <<"2">> ELSE @,
     !.artwork_padding = IF "artwork.padding" \in invalid THEN 45 ELSE @,
     !.artwork_width_pixels = IF "artwork.width_pixels" \in invalid THEN 300 ELSE @,
     !.artwork_width_columns = IF "artwork.width_columns" \in invalid THEN 14 ELSE @,
     !.artwork_vinyl_rpm = IF "artwork.vinyl_rpm" \in invalid THEN 10 ELSE @,
     !.text_max_length_with_art =
        IF "text.max_length_with_art" \in invalid THEN 22 ELSE @,
     !.text_max_length_no_art =
        IF "text.max_length_no_art" \in invalid THEN 36 ELSE @,
     !.timing_ui_refresh_ms = IF "timing.ui_refresh_ms" \in invalid THEN 100 ELSE @,
     !.timing_data_fetch_ms = IF "timing.data_fetch_ms" \in invalid THEN 1000 ELSE @]

applyDefaultsForInvalidFields(cfg, invalid) ==
  [cfg EXCEPT
     !.ui_max_width = IF "ui.max_width" \in invalid THEN 45 ELSE @,
     !.ui_color_mode = IF "ui.color_mode" \in invalid THEN "auto" ELSE @,
     !.ui_color = IF "ui.color" \in invalid THEN <<"2">> ELSE @,
     !.artwork_padding = IF "artwork.padding" \in invalid THEN 16 ELSE @,
     !.artwork_width_pixels = IF "artwork.width_pixels" \in invalid THEN 300 ELSE @,
     !.artwork_width_columns = IF "artwork.width_columns" \in invalid THEN 14 ELSE @,
     !.artwork_vinyl_rpm = IF "artwork.vinyl_rpm" \in invalid THEN 10 ELSE @,
     !.text_max_length_with_art =
        IF "text.max_length_with_art" \in invalid THEN 22 ELSE @,
     !.text_max_length_no_art =
        IF "text.max_length_no_art" \in invalid THEN 36 ELSE @,
     !.timing_ui_refresh_ms = IF "timing.ui_refresh_ms" \in invalid THEN 100 ELSE @,
     !.timing_data_fetch_ms = IF "timing.data_fetch_ms" \in invalid THEN 1000 ELSE @]

\* initConfig: validate what the file holds and repair the invalid fields
initConfig(file) == applyDefaultsForInvalidFields(file, validateConfig(file))

\* getCurrentPosition at time t, in milliseconds
getCurrentPositionPausedRuns(mm, t) ==
  LET currentPos == lastPosition + (t - lastPositionTime)
  IN IF duration > 0 /\ currentPos > duration * 1000
     THEN duration * 1000 ELSE currentPos

getCurrentPosition(mm, t) ==
  IF ~mm.isPlaying THEN lastPosition
  ELSE LET elapsed == t - lastPositionTime
           currentPos == lastPosition + elapsed
       IN IF duration > 0 /\ currentPos > duration * 1000
          THEN duration * 1000 ELSE currentPos

\* View: the filled cells of the progress bar for the position currentPos (in
\* milliseconds), int(float64(barWidth) * progress) with progress =
\* currentPos / duration when duration > 0 and 0 otherwise
filledWidth(cfg, currentPos) ==
  IF duration > 0
  THEN ((cfg.ui_max_width - 17) * currentPos) \div (duration * 1000)
  ELSE 0

\* The song data message a fetch issued from model mm delivers
songDataOf(mm, cfg, title, artist, status, artworkData) ==
  LET a == fetchArtwork(fetchSongData(mm), cfg, title, artist, status, artworkData)
  IN [NoMsg EXCEPT !.kind = "songData", !.title = title, !.artist = artist,
                   !.album = "LP", !.status = status, !.artwork = a.artwork,
                   !.rawArtwork = a.rawArtwork, !.color = a.color]

\* The model once the first fetch result of a playing track and the frames
\* built from its artwork have been handled
ModelWithCache(cfg) ==
  LET m0 == InitModel(cfg, TRUE)
      trackID == TrackIDOf("Blue", "X")
      msg == songDataOf(m0, cfg, "Blue", "X", "Playing", <<trackID, "png">>)
      m1 == songDataStored(m0, cfg, msg)
      build == songDataCmds(m0, cfg, msg)[1]
  IN vinylFramesStored(m1, [NoMsg EXCEPT !.kind = "vinylFrames",
                                         !.frames = vinylFrames(build),
                                         !.trackID = build.trackID])

InitClock ==
  /\ StoreStart
  /\ \E file \in ClockFiles : config = initConfig(file)
  /\ m = ModelWithCache(config)
  /\ terminalKitty = TRUE
  /\ configChangeChan = 0
  /\ watcherPc = "idle"
  /\ loopPc = "idle"
  /\ loopCfg = DefaultConfig
  /\ cmds = EmptyBag
  /\ inbox = EmptyBag
  /\ tickTimers = 1
  /\ fetchTimers = 1
  /\ watchers = 1
  /\ events = 0
  /\ last = NoUpdate
  /\ unhandled = FALSE
  /\ reloadCfg = config
  /\ handledLatest = TRUE
  /\ seenCfg = config
  /\ alive = TRUE
  /\ now = 0
  /\ lastPosition \in Positions
  /\ lastPositionTime = 0
  /\ duration \in Durations
  /\ tickDue = tickCmd(m, config).interval
  /\ fetched = [position |-> lastPosition, at |-> 0, playing |-> TRUE,
                duration |-> duration]
  /\ uninterrupted = TRUE
  /\ lastK = NoQuery
  /\ artIn = NoCall
  /\ artOut = NoResult

ClockUnchanged ==
  UNCHANGED <<config, configChangeChan, watcherPc, loopPc, loopCfg, cmds, inbox,
              tickTimers, fetchTimers, watchers, last, unhandled, reloadCfg,
              handledLatest, seenCfg, terminalKitty, alive, storeVars, artVars>>

\* Time passes; the tick timer fires when it is due, not later
TimePasses ==
  /\ \E d \in Delays :
       /\ now + d <= tickDue
       /\ now + d <= MaxNow
       /\ now' = now + d
  /\ lastK' = [NoQuery EXCEPT !.step = "time"]
  /\ UNCHANGED <<m, events, lastPosition, lastPositionTime, duration, tickDue,
                 fetched, uninterrupted>>
  /\ ClockUnchanged

\* The tick timer fires: Update handles tickMsg and schedules the next tick
TickFires ==
  /\ now = tickDue
  /\ m' = tickHandled(m, config)
  /\ tickDue' = now + tickCmd(m', config).interval
  /\ lastK' = [NoQuery EXCEPT !.step = "tick"]
  /\ UNCHANGED <<now, events, lastPosition, lastPositionTime, duration, fetched,
                 uninterrupted>>
  /\ ClockUnchanged

\* Update handles the result of a fetch that failed
ResultError ==
  /\ MayAct
  /\ m' = songDataError(m, [NoMsg EXCEPT !.kind = "songData", !.err = "err"])
  /\ events' = events + 1
  /\ uninterrupted' = FALSE
  /\ lastK' = [NoQuery EXCEPT !.step = "result"]
  /\ UNCHANGED <<now, lastPosition, lastPositionTime, duration, tickDue, fetched>>
  /\ ClockUnchanged

\* Update handles the result of a fetch that succeeded
ResultApplied ==
  /\ MayAct
  /\ \E title \in Titles, status \in Statuses, position \in Positions,
        dur \in Durations :
       \E artworkData \in {d \in RawArtworks(TrackIDOf(title, "X")) : ~Panics(d)} :
         LET msg == songDataOf(m, config, title, "X", status, artworkData)
         IN /\ m' = songDataStored(m, config, msg)
            /\ lastPosition' = position
            /\ lastPositionTime' = now
            /\ duration' = dur
            /\ fetched' = [position |-> position, at |-> now,
                           playing |-> (ToLower(status) = "playing"),
                           duration |-> dur]
  /\ events' = events + 1
  /\ uninterrupted' = (/\ uninterrupted
                       /\ m'.isPlaying
                       /\ m'.vinylFrameCache = m.vinylFrameCache
                       /\ m'.vinylRotation = m.vinylRotation
                       /\ m'.vinylAccumulator = m.vinylAccumulator)
  /\ lastK' = [NoQuery EXCEPT !.step = "result"]
  /\ UNCHANGED <<now, tickDue>>
  /\ ClockUnchanged

\* View computes the position it displays
Query ==
  /\ lastK' = [step |-> "query", shown |-> getCurrentPosition(m, now)]
  /\ UNCHANGED <<m, events, now, lastPosition, lastPositionTime, duration,
                 tickDue, fetched, uninterrupted>>
  /\ ClockUnchanged

NextClock ==
  \/ TimePasses
  \/ TickFires
  \/ ResultError
  \/ ResultApplied
  \/ Query

SpecClock == InitClock /\ [][NextClock]_vars

----------------------------------------------------------------------------
(* SpecArt: one call of processArtwork.  The image libraries are described *)
(* by what they do with the input: bytes are empty, an image or garbage,   *)
(* possibly wrapped in base64, and color extraction and encoding of the    *)
(* decoded image each succeed, fail, or return the empty string.  A call   *)
(* that panics returns nothing and is not part of this specification.      *)

Outcomes == {"ok", "err", "empty"}
RotationAngles == {0, 1, 2}

ArtworkInputs ==
  [base64 : BOOLEAN, bytes : {"empty", "image", "garbage"},
   colorOutcome : Outcomes, encodeOutcome : Outcomes]

\* decodeArtworkData: strip the base64 layer when there is one, then
\* image.Decode; img is the decoded image, NoCall.data when there is none
decodeArtworkData(imgData) ==
  LET imageData == IF imgData.base64 THEN [imgData EXCEPT !.base64 = FALSE]
                   ELSE imgData
  IN IF imageData.bytes = "empty"
     THEN [img |-> NoCall.data, err |-> "empty image data"]
     ELSE IF imageData.bytes # "image"
     THEN [img |-> NoCall.data, err |-> "failed to decode image"]
     ELSE [img |-> imageData, err |-> ""]

extractDominantColor(img) ==
  CASE img.colorOutcome = "ok" -> [color |-> ExtractedColor, err |-> ""]
    [] img.colorOutcome = "empty" -> [color |-> EmptyStr, err |-> ""]
    [] OTHER -> [color |-> EmptyStr, err |-> "no suitable colors"]

encodeArtworkForKitty(img, rotationAngle) ==
  CASE img.encodeOutcome = "ok" -> [encoded |-> <<"kitty", rotationAngle>>, err |-> ""]
    [] img.encodeOutcome = "empty" -> [encoded |-> EmptyStr, err |-> ""]
    [] OTHER -> [encoded |-> EmptyStr, err |-> "encode failed"]

processArtworkFailsWithColor(artworkData, extractColor, rotationAngle) ==
  LET d == decodeArtworkData(artworkData)
      c == extractDominantColor(d.img)
      e == encodeArtworkForKitty(d.img, rotationAngle)
  IN IF d.err # "" \/ (extractColor /\ c.err # "")
     THEN [color |-> EmptyStr, encoded |-> EmptyStr,
           err |-> IF d.err # "" THEN d.err ELSE c.err, done |-> TRUE]
     ELSE [color |-> IF extractColor THEN c.color ELSE EmptyStr,
           encoded |-> IF e.err = "" THEN e.encoded ELSE EmptyStr,
           err |-> "", done |-> TRUE]

processArtwork(artworkData, extractColor, rotationAngle) ==
  LET d == decodeArtworkData(artworkData)
      c == extractDominantColor(d.img)
      e == encodeArtworkForKitty(d.img, rotationAngle)
  IN IF d.err # ""
     THEN [color |-> EmptyStr, encoded |-> EmptyStr, err |-> d.err, done |-> TRUE]
     ELSE [color |-> IF extractColor /\ c.err = "" /\ c.color # EmptyStr
                     THEN c.color ELSE EmptyStr,
           encoded |-> IF e.err = "" /\ e.encoded # EmptyStr
                       THEN e.encoded ELSE EmptyStr,
           err |-> "", done |-> TRUE]

InitArt ==
  /\ StoreStart
  /\ config = DefaultConfig
  /\ m = InitModel(DefaultConfig, FALSE)
  /\ terminalKitty = FALSE
  /\ configChangeChan = 0
  /\ watcherPc = "idle"
  /\ loopPc = "idle"
  /\ loopCfg = DefaultConfig
  /\ cmds = EmptyBag
  /\ inbox = EmptyBag
  /\ tickTimers = 1
  /\ fetchTimers = 1
  /\ watchers = 1
  /\ events = 0
  /\ last = NoUpdate
  /\ unhandled = FALSE
  /\ reloadCfg = DefaultConfig
  /\ handledLatest = TRUE
  /\ seenCfg = config
  /\ alive = TRUE
  /\ now = 0
  /\ lastPosition = 0
  /\ lastPositionTime = 0
  /\ duration = 0
  /\ tickDue = 0
  /\ fetched = [position |-> 0, at |-> 0, playing |-> FALSE, duration |-> 0]
  /\ uninterrupted = FALSE
  /\ lastK = NoQuery
  /\ artIn \in [data : ArtworkInputs, extractColor : BOOLEAN,
                rotationAngle : RotationAngles]
  /\ artOut = NoResult

ProcessArtworkCall ==
  /\ ~artOut.done
  /\ artOut' = processArtwork(artIn.data, artIn.extractColor, artIn.rotationAngle)
  /\ UNCHANGED <<artIn, mainVars, storeVars, clockVars>>

NextArt == ProcessArtworkCall

SpecArt == InitArt /\ [][NextArt]_vars

----------------------------------------------------------------------------
(* SpecEnc: the Kitty commands encodeArtworkForKitty writes for a base64   *)
(* payload.  A base64 character is a number 0..63; a command is the record *)
(* of its control keys and its payload.                                    *)

\* Everything but the call variables, as in a program at rest
Idle ==
  /\ StoreStart
  /\ config = DefaultConfig
  /\ m = InitModel(DefaultConfig, FALSE)
  /\ terminalKitty = FALSE
  /\ configChangeChan = 0
  /\ watcherPc = "idle"
  /\ loopPc = "idle"
  /\ loopCfg = DefaultConfig
  /\ cmds = EmptyBag
  /\ inbox = EmptyBag
  /\ tickTimers = 1
  /\ fetchTimers = 1
  /\ watchers = 1
  /\ events = 0
  /\ last = NoUpdate
  /\ unhandled = FALSE
  /\ reloadCfg = DefaultConfig
  /\ handledLatest = TRUE
  /\ seenCfg = config
  /\ alive = TRUE
  /\ now = 0
  /\ lastPosition = 0
  /\ lastPositionTime = 0
  /\ duration = 0
  /\ tickDue = 0
  /\ fetched = [position |-> 0, at |-> 0, playing |-> FALSE, duration |-> 0]
  /\ uninterrupted = FALSE
  /\ lastK = NoQuery

chunkSize == 4096
imageID == 42

\* Payload lengths around one, two and three chunks, and two payloads of
\* each length
PayloadLengths == (4094..4098) \cup (8190..8194) \cup {0, 1, 12289}
Payload(len, seed) == [i \in 1..len |-> (i * seed) % 64]

\* \033_G<keys>;<payload>\033\\ : placement stands for the keys
\* a=T,f=100,t=d,i=<i>,c=<c>,C=1 and more for the m key ("" when absent)
KittyCmd(a, i, placement, c, more, payload) ==
  [a |-> a, i |-> i, placement |-> placement, c |-> c, more |-> more,
   payload |-> payload]

\* the loop `for i := 0; i < len(encoded); i += chunkSize`, from index i
RECURSIVE kittyChunks(_, _, _)
kittyChunks(encoded, widthColumns, i) ==
  IF i >= Len(encoded) THEN <<>>
  ELSE LET end == IF i + chunkSize > Len(encoded) THEN Len(encoded)
                  ELSE i + chunkSize
           chunk == SubSeq(encoded, i + 1, end)
           cmd == IF i = 0
                  THEN KittyCmd("T", imageID, TRUE, widthColumns, "1", chunk)
                  ELSE IF end = Len(encoded)
                  THEN KittyCmd("", 0, FALSE, 0, "0", chunk)
                  ELSE KittyCmd("", 0, FALSE, 0, "1", chunk)
       IN <<cmd>> \o kittyChunks(encoded, widthColumns, i + chunkSize)

kittyCommandsChunksAtLimit(encoded, widthColumns) ==
  <<KittyCmd("d", imageID, FALSE, 0, "", <<>>)>> \o
  (IF Len(encoded) < chunkSize
   THEN <<KittyCmd("T", imageID, TRUE, widthColumns, "", encoded)>>
   ELSE kittyChunks(encoded, widthColumns, 0))

\* what encodeArtworkForKitty writes to result once the payload is encoded
kittyCommands(encoded, widthColumns) ==
  <<KittyCmd("d", imageID, FALSE, 0, "", <<>>)>> \o
  (IF Len(encoded) <= chunkSize
   THEN <<KittyCmd("T", imageID, TRUE, widthColumns, "", encoded)>>
   ELSE kittyChunks(encoded, widthColumns, 0))

InitEnc ==
  /\ Idle
  /\ \E len \in PayloadLengths, seed \in {1, 5}, c \in {10, 14, 100} :
       artIn = [encoded |-> Payload(len, seed), widthColumns |-> c]
  /\ artOut = [done |-> FALSE, cmds |-> <<>>]

EncodeCall ==
  /\ ~artOut.done
  /\ artOut' = [done |-> TRUE,
                cmds |-> kittyCommands(artIn.encoded, artIn.widthColumns)]
  /\ UNCHANGED <<artIn, mainVars, storeVars, clockVars>>

SpecEnc == InitEnc /\ [][EncodeCall]_vars

----------------------------------------------------------------------------
(* SpecScroll: one call of scrollText.  A string is its sequence of UTF-8  *)
(* bytes; []rune(s) groups the bytes of each character by the width its    *)
(* lead byte announces and string(runes) puts the groups back in a row.    *)

\* "  •  " : two spaces, U+2022 (three bytes), two spaces
scrollSeparator == <<32, 32, 226, 128, 162, 32, 32>>

Utf8Width(lead) ==
  IF lead < 128 THEN 1 ELSE IF lead < 224 THEN 2 ELSE IF lead < 240 THEN 3 ELSE 4

\* []rune(s), each rune kept as the bytes that encode it
RECURSIVE RunesOf(_)
RunesOf(s) ==
  IF s = <<>> THEN <<>>
  ELSE LET w == Utf8Width(s[1])
       IN <<SubSeq(s, 1, w)>> \o RunesOf(SubSeq(s, w + 1, Len(s)))

\* string(runes)
RECURSIVE StringOf(_)
StringOf(runes) ==
  IF runes = <<>> THEN <<>> ELSE runes[1] \o StringOf(Tail(runes))

scrollTextAlwaysScrolls(text, max, offset) ==
  LET fullText == RunesOf(text) \o RunesOf(scrollSeparator)
      textLen == Len(fullText)
  IN StringOf([i \in 1..max |-> fullText[(((offset % textLen) + i - 1) % textLen) + 1]])

scrollTextNoSeparator(text, max, offset) ==
  LET runes == RunesOf(text)
  IN IF Len(runes) <= max THEN text
     ELSE StringOf([i \in 1..max |->
                      runes[(((offset % Len(runes)) + i - 1) % Len(runes)) + 1]])

scrollText(text, max, offset) ==
  LET runes == RunesOf(text)
  IN IF Len(runes) <= max THEN text
     ELSE LET fullText == runes \o RunesOf(scrollSeparator)
              textLen == Len(fullText)
              off == offset % textLen
              result == [i \in 1..max |-> fullText[((off + i - 1) % textLen) + 1]]
          IN StringOf(result)

\* Texts of up to MaxRunes characters over A and a three-byte character,
\* and the text ABC
Texts ==
  {StringOf(rs) : rs \in UNION {[1..n -> {<<65>>, <<228, 184, 150>>}] : n \in 0..MaxRunes}}
    \cup {<<65, 66, 67>>}

InitScroll ==
  /\ Idle
  /\ artIn \in [text : Texts, max : 0..(MaxRunes + 2), offset : 0..(2 * MaxRunes + 11)]
  /\ artOut = [done |-> FALSE, result |-> <<>>]

ScrollCall ==
  /\ ~artOut.done
  /\ artOut' = [done |-> TRUE,
                result |-> scrollText(artIn.text, artIn.max, artIn.offset)]
  /\ UNCHANGED <<artIn, mainVars, storeVars, clockVars>>

SpecScroll == InitScroll /\ [][ScrollCall]_vars

----------------------------------------------------------------------------
(* SpecColor: one call of extractDominantColor on the pixels its sampling  *)
(* grid visits.  A pixel is what img.At(x, y).RGBA() returns, four 16-bit  *)
(* values.  Lightness and saturation are kept as exact fractions of the    *)
(* 8-bit channels: lightness = light2 / 510 with light2 = max + min, and   *)
(* saturation = satNum / satDen.  What prominentcolor.Kmeans returns is an *)
(* input of the call.                                                      *)

Levels == {0, 100, 230, 255}
Alphas == {0, 32767, 32768}
Pixels == [r : {l * 257 : l \in Levels}, g : {l * 257 : l \in Levels},
           b : {l * 257 : l \in Levels}, a : Alphas]

\* uint8(v >> 8) of the sampled pixels that are not skipped as transparent
sampledColors(img) ==
  {<<img[i].r \div 256, img[i].g \div 256, img[i].b \div 256>> :
     i \in {k \in 1..Len(img) : ~(img[k].a < 32768)}}

colorCount(img, rgb) ==
  Cardinality({k \in 1..Len(img) :
     /\ ~(img[k].a < 32768)
     /\ <<img[k].r \div 256, img[k].g \div 256, img[k].b \div 256>> = rgb})

Max3(rgb) == Max2(Max2(rgb[1], rgb[2]), rgb[3])
Min3(rgb) == -Max2(Max2(-rgb[1], -rgb[2]), -rgb[3])
light2(rgb) == Max3(rgb) + Min3(rgb)
satNum(rgb) == Max3(rgb) - Min3(rgb)
satDen(rgb) ==
  IF Max3(rgb) = Min3(rgb) THEN 1
  ELSE IF light2(rgb) > 255 THEN 510 - light2(rgb) ELSE light2(rgb)

\* not (lightness < 0.3 || lightness > 0.85 || saturation < 0.25)
keepsColorAnyLightness(rgb) == ~(4 * satNum(rgb) < satDen(rgb))

keepsColor(rgb) ==
  ~(\/ 10 * light2(rgb) < 1530
    \/ 100 * light2(rgb) > 43350
    \/ 4 * satNum(rgb) < satDen(rgb))

\* score = saturation * 2.5 + lightnessScore * 1.5 + count / 1000, as the
\* fraction num / den with den = 51000 * satDen
scoreOf(img, rgb) ==
  LET ls2 == IF 10 * light2(rgb) > 3570 THEN 714 - light2(rgb) ELSE light2(rgb)
  IN [num |-> 5 * satNum(rgb) * 25500 + 150 * ls2 * satDen(rgb)
                + 51 * colorCount(img, rgb) * satDen(rgb),
      den |-> 51000 * satDen(rgb)]

\* a/b > c/d for positive b and d, by Euclid's steps (no product is formed)
RECURSIVE FracGreater(_, _, _, _)
FracGreater(a, b, c, d) ==
  IF a \div b # c \div d THEN a \div b > c \div d
  ELSE IF a % b = 0 THEN FALSE
  ELSE IF c % d = 0 THEN TRUE
  ELSE FracGreater(d, c % d, b, a % b)

Hex2(v) == <<SubSeq(<<"0", "1", "2", "3", "4", "5", "6", "7", "8", "9",
                      "a", "b", "c", "d", "e", "f">>, (v \div 16) + 1, (v \div 16) + 1)[1],
             SubSeq(<<"0", "1", "2", "3", "4", "5", "6", "7", "8", "9",
                      "a", "b", "c", "d", "e", "f">>, (v % 16) + 1, (v % 16) + 1)[1]>>

\* fmt.Sprintf("#%02x%02x%02x", r, g, b)
HexColor(rgb) == <<"#">> \o Hex2(rgb[1]) \o Hex2(rgb[2]) \o Hex2(rgb[3])

\* The results extractDominantColor can return for img once the candidates
\* are known: the best-scoring candidate (any of them on a tie, the map is
\* walked in no fixed order), or what the k-means fallback gives when there
\* is no candidate
colorResults(img, kmeans, candidates) ==
  LET best == {c \in candidates :
                 \A o \in candidates :
                   ~FracGreater(scoreOf(img, o).num, scoreOf(img, o).den,
                                scoreOf(img, c).num, scoreOf(img, c).den)}
  IN IF candidates = {}
     THEN IF kmeans = EmptyStr
          THEN {[color |-> EmptyStr, err |-> "no suitable colors found",
                 path |-> "fallback"]}
          ELSE {[color |-> kmeans, err |-> "", path |-> "fallback"]}
     ELSE {[color |-> HexColor(c), err |-> "", path |-> "primary"] : c \in best}

dominantColorsAnyLightness(img, kmeans) ==
  colorResults(img, kmeans,
               {rgb \in sampledColors(img) : keepsColorAnyLightness(rgb)})

dominantColors(img, kmeans) ==
  colorResults(img, kmeans, {rgb \in sampledColors(img) : keepsColor(rgb)})

InitColor ==
  /\ Idle
  /\ \E n \in 1..2 :
       artIn \in [img : [1..n -> Pixels], kmeans : {EmptyStr, HexColor(<<0, 0, 0>>)}]
  /\ artOut = [done |-> FALSE, color |-> EmptyStr, err |-> "", path |-> ""]

ColorCall ==
  /\ ~artOut.done
  /\ \E res \in dominantColors(artIn.img, artIn.kmeans) :
       artOut' = [done |-> TRUE, color |-> res.color, err |-> res.err,
                  path |-> res.path]
  /\ UNCHANGED <<artIn, mainVars, storeVars, clockVars>>

SpecColor == InitColor /\ [][ColorCall]_vars

----------------------------------------------------------------------------
(* SpecValidate: the validation flow of a loaded Config, one step per call: *)
(* validateConfig, applyDefaultsForInvalidFields, validateConfig again.     *)

LoadedConfigs ==
  {[DefaultConfig EXCEPT
      !.ui_max_width = w, !.ui_color_mode = cm, !.ui_color = col,
      !.artwork_padding = p, !.artwork_width_pixels = wp,
      !.artwork_width_columns = wc, !.artwork_vinyl_rpm = rpm,
      !.text_max_length_with_art = ta, !.text_max_length_no_art = tn,
      !.timing_ui_refresh_ms = ur, !.timing_data_fetch_ms = df]
     : w \in {10, 20, 45}, cm \in {"auto", "manual", "wrong"},
       col \in {<<"2">>, <<"9", "9", "9">>, <<"#", "f", "f", "f">>,
                <<"i", "n", "v", "a", "l", "i", "d">>},
       p \in {-5, 0, 16, 19, 20, 50}, wp \in {0, 300},
       wc \in {0, 14, 101}, rpm \in {0, 10}, ta \in {0, 22}, tn \in {36, 300},
       ur \in {5, 100}, df \in {1000, 70000}}

InitValidate ==
  /\ Idle
  /\ artIn \in LoadedConfigs
  /\ artOut = [step |-> "loaded", cfg |-> artIn, errors |-> {}]

ValidateCall ==
  /\ artOut.step = "loaded"
  /\ artOut' = [artOut EXCEPT !.step = "validated",
                              !.errors = validateConfig(artOut.cfg)]
  /\ UNCHANGED <<artIn, mainVars, storeVars, clockVars>>

ApplyDefaultsCall ==
  /\ artOut.step = "validated"
  /\ artOut' = [artOut EXCEPT
                  !.step = "defaulted",
                  !.cfg = applyDefaultsForInvalidFields(artOut.cfg, artOut.errors)]
  /\ UNCHANGED <<artIn, mainVars, storeVars, clockVars>>

RevalidateCall ==
  /\ artOut.step = "defaulted"
  /\ artOut' = [artOut EXCEPT !.step = "revalidated",
                              !.errors = validateConfig(artOut.cfg)]
  /\ UNCHANGED <<artIn, mainVars, storeVars, clockVars>>

NextValidate == ValidateCall \/ ApplyDefaultsCall \/ RevalidateCall

SpecValidate == InitValidate /\ [][NextValidate]_vars

----------------------------------------------------------------------------
(* SpecOrder: data fetches in flight at once.  Every fetch the loop issues *)
(* gets the next number; artIn is what the player would answer now, and    *)
(* artOut keeps the number issued last, the highest number among the       *)
(* results applied so far, and the number of the result applied by the     *)
(* last step (0 when the last step applied none).  cmds holds the fetches  *)
(* that have not read the player yet, inbox the results not yet handled.   *)

InitOrder ==
  /\ StoreStart
  /\ config = DefaultConfig
  /\ m = InitModel(DefaultConfig, TRUE)
  /\ terminalKitty = TRUE
  /\ configChangeChan = 0
  /\ watcherPc = "idle"
  /\ loopPc = "idle"
  /\ loopCfg = DefaultConfig
  /\ cmds = EmptyBag
  /\ inbox = EmptyBag
  /\ tickTimers = 1
  /\ fetchTimers = 1
  /\ watchers = 1
  /\ events = 0
  /\ last = NoUpdate
  /\ unhandled = FALSE
  /\ reloadCfg = DefaultConfig
  /\ handledLatest = TRUE
  /\ seenCfg = config
  /\ alive = TRUE
  /\ now = 0
  /\ lastPosition = 0
  /\ lastPositionTime = 0
  /\ duration = 0
  /\ tickDue = 0
  /\ fetched = [position |-> 0, at |-> 0, playing |-> FALSE, duration |-> 0]
  /\ uninterrupted = FALSE
  /\ lastK = NoQuery
  /\ artIn \in [title : Titles, status : Statuses, position : Positions]
  /\ artOut = [issued |-> 0, newest |-> 0, applied |-> 0]

\* fetchMsg: the timer fetch
TimerFetch ==
  /\ artOut.issued < MaxEvents
  /\ BagCardinality(cmds) + BagCardinality(inbox) < MaxInFlight
  /\ cmds' = cmds (+) SetToBag({[seq |-> artOut.issued + 1, c |-> fetchSongData(m)]})
  /\ artOut' = [artOut EXCEPT !.issued = @ + 1, !.applied = 0]
  /\ UNCHANGED <<m, inbox, artIn, lastPosition>>
  /\ UNCHANGED <<config, configChangeChan, watcherPc, loopPc, loopCfg, tickTimers,
                 fetchTimers, watchers, events, last, unhandled, reloadCfg,
                 handledLatest, seenCfg, terminalKitty, alive, storeVars, now,
                 lastPositionTime, duration, tickDue, fetched, uninterrupted, lastK>>

\* Key n: the player moves to the other track, then the immediate fetch
KeyNextFetch ==
  /\ artOut.issued < MaxEvents
  /\ BagCardinality(cmds) + BagCardinality(inbox) < MaxInFlight
  /\ \E title \in Titles \ {artIn.title} :
       artIn' = [artIn EXCEPT !.title = title, !.position = 0]
  /\ cmds' = cmds (+) SetToBag({[seq |-> artOut.issued + 1, c |-> fetchSongData(m)]})
  /\ artOut' = [artOut EXCEPT !.issued = @ + 1, !.applied = 0]
  /\ UNCHANGED <<m, inbox, lastPosition>>
  /\ UNCHANGED <<config, configChangeChan, watcherPc, loopPc, loopCfg, tickTimers,
                 fetchTimers, watchers, events, last, unhandled, reloadCfg,
                 handledLatest, seenCfg, terminalKitty, alive, storeVars, now,
                 lastPositionTime, duration, tickDue, fetched, uninterrupted, lastK>>

\* The closure of one fetch asks the player and its result is on its way
FetchReads ==
  /\ \E f \in BagToSet(cmds) :
       LET trackID == TrackIDOf(artIn.title, "X")
           a == fetchArtwork(f.c, config, artIn.title, "X", artIn.status,
                             <<trackID, "png">>)
       IN /\ cmds' = cmds (-) SetToBag({f})
          /\ inbox' = inbox (+) SetToBag({
               [seq |-> f.seq, position |-> artIn.position,
                msg |-> [NoMsg EXCEPT
                           !.kind = "songData", !.title = artIn.title,
                           !.artist = "X", !.album = "LP", !.status = artIn.status,
                           !.artwork = a.artwork, !.rawArtwork = a.rawArtwork,
                           !.color = a.color]]})
  /\ artOut' = [artOut EXCEPT !.applied = 0]
  /\ UNCHANGED <<m, artIn, lastPosition>>
  /\ UNCHANGED <<config, configChangeChan, watcherPc, loopPc, loopCfg, tickTimers,
                 fetchTimers, watchers, events, last, unhandled, reloadCfg,
                 handledLatest, seenCfg, terminalKitty, alive, storeVars, now,
                 lastPositionTime, duration, tickDue, fetched, uninterrupted, lastK>>

\* songDataMsg: Update handles one of the results that have arrived
ResultHandled ==
  /\ \E r \in BagToSet(inbox) :
       /\ inbox' = inbox (-) SetToBag({r})
       /\ m' = songDataStored(m, config, r.msg)
       /\ lastPosition' = r.position
       /\ artOut' = [artOut EXCEPT !.applied = r.seq,
                                   !.newest = Max2(@, r.seq)]
  /\ UNCHANGED <<cmds, artIn>>
  /\ UNCHANGED <<config, configChangeChan, watcherPc, loopPc, loopCfg, tickTimers,
                 fetchTimers, watchers, events, last, unhandled, reloadCfg,
                 handledLatest, seenCfg, terminalKitty, alive, storeVars, now,
                 lastPositionTime, duration, tickDue, fetched, uninterrupted, lastK>>

NextOrder == TimerFetch \/ KeyNextFetch \/ FetchReads \/ ResultHandled

SpecOrder == InitOrder /\ [][NextOrder]_vars

----------------------------------------------------------------------------
(* SpecBuild: one run of the closure of generateVinylFramesCmd, frame by   *)
(* frame, while the file watcher may install other snapshots.  artIn is    *)
(* the build command, artOut the frames made so far.  Each frame keeps the *)
(* widths encodeArtworkForKitty read from config.Get() when it was         *)
(* encoded.  What the loop does with the change notifications is left out: *)
(* it starts further builds but does not touch a build that is running,    *)
(* nor the test under which its result is accepted.                        *)

BuildFiles ==
  {[DefaultConfig EXCEPT !.artwork_vinyl_mode = TRUE, !.artwork_vinyl_frames = 3,
                         !.artwork_width_pixels = wp, !.artwork_width_columns = wc]
     : wp \in {300, 600}, wc \in {14, 20}}

\* processArtwork(rawArtwork, false, i, frameCount) under the snapshot cfg
encodeFrameUnder(cfg, raw, idx, n) ==
  [frame |-> EncodeFrame(raw, idx, n),
   widthPixels |-> cfg.artwork_width_pixels,
   widthColumns |-> cfg.artwork_width_columns]

InitBuild ==
  /\ StoreStart
  /\ config \in BuildFiles
  /\ LET m0 == InitModel(config, TRUE)
         msg == songDataOf(m0, config, "Blue", "X", "Playing",
                           <<TrackIDOf("Blue", "X"), "png">>)
     IN /\ m = songDataStored(m0, config, msg)
        /\ artIn = songDataCmds(m0, config, msg)[1]
  /\ artOut = [frames |-> <<>>, sent |-> FALSE]
  /\ terminalKitty = TRUE
  /\ configChangeChan = 0
  /\ watcherPc = "idle"
  /\ loopPc = "idle"
  /\ loopCfg = DefaultConfig
  /\ cmds = EmptyBag
  /\ inbox = EmptyBag
  /\ tickTimers = 1
  /\ fetchTimers = 1
  /\ watchers = 1
  /\ events = 0
  /\ last = NoUpdate
  /\ unhandled = FALSE
  /\ reloadCfg = config
  /\ handledLatest = TRUE
  /\ seenCfg = config
  /\ alive = TRUE
  /\ now = 0
  /\ lastPosition = 0
  /\ lastPositionTime = 0
  /\ duration = 0
  /\ tickDue = 0
  /\ fetched = [position |-> 0, at |-> 0, playing |-> FALSE, duration |-> 0]
  /\ uninterrupted = FALSE
  /\ lastK = NoQuery

\* one turn of the loop "for i := 0; i < frameCount; i++"
EncodeNextFrame ==
  /\ Len(artOut.frames) < artIn.frameCount
  /\ artOut' = [artOut EXCEPT
                  !.frames = Append(@, encodeFrameUnder(config, artIn.raw, Len(@),
                                                        artIn.frameCount))]
  /\ UNCHANGED <<artIn, mainVars, storeVars, clockVars>>

\* the viper.OnConfigChange callback installs another valid snapshot
ReloadDuringBuild ==
  /\ ~artOut.sent
  /\ \E newCfg \in BuildFiles \ {config} :
       /\ validateConfig(newCfg) = {}
       /\ config' = newCfg
       /\ reloadCfg' = newCfg
  /\ UNCHANGED <<m, configChangeChan, watcherPc, loopPc, loopCfg, cmds, inbox,
                 tickTimers, fetchTimers, watchers, events, last, unhandled,
                 handledLatest, seenCfg, terminalKitty, alive>>
  /\ UNCHANGED <<artVars, storeVars, clockVars>>

\* the closure returns vinylFramesMsg and Update handles it
FramesInstalled ==
  /\ Len(artOut.frames) = artIn.frameCount
  /\ ~artOut.sent
  /\ m' = vinylFramesStored(m, [NoMsg EXCEPT !.kind = "vinylFrames",
                                             !.frames = artOut.frames,
                                             !.trackID = artIn.trackID])
  /\ artOut' = [artOut EXCEPT !.sent = TRUE]
  /\ UNCHANGED <<config, configChangeChan, watcherPc, loopPc, loopCfg, cmds, inbox,
                 tickTimers, fetchTimers, watchers, events, last, unhandled,
                 reloadCfg, handledLatest, seenCfg, terminalKitty, alive>>
  /\ UNCHANGED <<artIn, storeVars, clockVars>>

NextBuild == EncodeNextFrame \/ ReloadDuringBuild \/ FramesInstalled

SpecBuild == InitBuild /\ [][NextBuild]_vars

----------------------------------------------------------------------------
(* SpecTicks: the text scrolling of the tickMsg case over many ticks.  The *)
(* loop handles ticks, fetch results and reloads that change the display   *)
(* width; lastK.step names the message handled last.  Vinyl mode is off.   *)

\* a successful fetch result for one of the titles is handled
TrackResult ==
  \E title \in Titles, status \in Statuses :
    \E artworkData \in {d \in RawArtworks(TrackIDOf(title, "X")) : ~Panics(d)} :
      /\ m' = songDataStored(m, config,
                             songDataOf(m, config, title, "X", status, artworkData))
      /\ lastK' = [NoQuery EXCEPT !.step = "result"]
      /\ UNCHANGED <<config, reloadCfg>>

\* a valid file with another display width is stored and its reload handled
WidthReload ==
  \E w \in {2, 45} :
    LET newCfg == [config EXCEPT !.text_max_length_with_art = w,
                                 !.text_max_length_no_art = w]
    IN /\ newCfg # config
       /\ validateConfig(newCfg) = {}
       /\ config' = newCfg
       /\ reloadCfg' = newCfg
       /\ lastK' = [NoQuery EXCEPT !.step = "reload"]
       /\ UNCHANGED m

\* a tick is handled
TickHandled ==
  /\ m.scrollTick < MaxTicks
  /\ m' = tickHandled(m, config)
  /\ lastK' = [NoQuery EXCEPT !.step = "tick"]
  /\ UNCHANGED <<config, reloadCfg>>

InitTicks ==
  /\ StoreStart
  /\ \E w \in {2, 45} :
       config = [DefaultConfig EXCEPT !.text_max_length_with_art = w,
                                      !.text_max_length_no_art = w]
  /\ \E title \in Titles :
       LET m0 == InitModel(config, TRUE)
       IN m = songDataStored(m0, config,
                             songDataOf(m0, config, title, "X", "Playing", EmptyStr))
  /\ terminalKitty = TRUE
  /\ configChangeChan = 0
  /\ watcherPc = "idle"
  /\ loopPc = "idle"
  /\ loopCfg = DefaultConfig
  /\ cmds = EmptyBag
  /\ inbox = EmptyBag
  /\ tickTimers = 1
  /\ fetchTimers = 1
  /\ watchers = 1
  /\ events = 0
  /\ last = NoUpdate
  /\ unhandled = FALSE
  /\ reloadCfg = config
  /\ handledLatest = TRUE
  /\ seenCfg = config
  /\ alive = TRUE
  /\ now = 0
  /\ lastPosition = 0
  /\ lastPositionTime = 0
  /\ duration = 0
  /\ tickDue = 0
  /\ fetched = [position |-> 0, at |-> 0, playing |-> FALSE, duration |-> 0]
  /\ uninterrupted = FALSE
  /\ lastK = NoQuery
  /\ artIn = NoCall
  /\ artOut = NoResult

NextTicks ==
  /\ TrackResult \/ WidthReload \/ TickHandled
  /\ UNCHANGED <<configChangeChan, watcherPc, loopPc, loopCfg, cmds, inbox,
                 tickTimers, fetchTimers, watchers, events, last, unhandled,
                 handledLatest, seenCfg, terminalKitty, alive>>
  /\ UNCHANGED <<now, lastPosition, lastPositionTime, duration, tickDue, fetched,
                 uninterrupted>>
  /\ UNCHANGED <<artVars, storeVars>>

SpecTicks == InitTicks /\ [][NextTicks]_vars

----------------------------------------------------------------------------
(* SpecRotate: the event loop of Spec, started while a record of 3 frames  *)
(* is turning at 60 rpm: the cache of Blue is installed and 0 or 7 ticks   *)
(* have been handled since, which leaves the rotation index at 0 or 2.     *)
(* Track changes, reloads with other frame counts, builds and ticks follow *)
(* as in Spec.                                                             *)

\* the model after k more ticks under the snapshot cfg
RECURSIVE SpinTicks(_, _, _)
SpinTicks(mm, cfg, k) ==
  IF k = 0 THEN mm ELSE SpinTicks(tickHandled(mm, cfg), cfg, k - 1)

InitRotate ==
  /\ config = [DefaultConfig EXCEPT !.artwork_vinyl_mode = TRUE,
                                    !.artwork_vinyl_frames = 3,
                                    !.artwork_vinyl_rpm = 60]
  /\ \E k \in {0, 7} : m = SpinTicks(ModelWithCache(config), config, k)
  /\ terminalKitty = TRUE
  /\ configChangeChan = 0
  /\ watcherPc = "idle"
  /\ loopPc = "idle"
  /\ loopCfg = DefaultConfig
  /\ cmds = EmptyBag
  /\ inbox = EmptyBag
  /\ tickTimers = 1
  /\ fetchTimers = 1
  /\ watchers = 1
  /\ events = 0
  /\ last = NoUpdate
  /\ unhandled = FALSE
  /\ reloadCfg = config
  /\ handledLatest = TRUE
  /\ seenCfg = config
  /\ alive = TRUE
  /\ StoreStart
  /\ ClockStart

SpecRotate == InitRotate /\ [][Next]_vars

----------------------------------------------------------------------------
(* Vocabulary of the properties *)

\* title|artist of the track of the last successful songDataMsg applied
currentTrackID == TrackIDOf(m.songData.Title, m.songData.Artist)

NotificationPending ==
  \/ watcherPc = "notify"
  \/ configChangeChan > 0
  \/ CopiesIn(configReloadMsg, inbox) > 0

BuildInFlight ==
  \/ \E c \in BagToSet(cmds) : c.kind = "build"
  \/ \E msg \in BagToSet(inbox) : msg.kind = "vinylFrames"

Settled == ~NotificationPending /\ ~BuildInFlight /\ loopPc = "idle"

----------------------------------------------------------------------------
(* C1: a frame-cache build result for a track other than the one of the    *)
(* last successful fetch result is discarded: cache, rotation index,       *)
(* accumulator and displayed artwork stay as they were.                    *)
C1_StaleBuildDiscarded ==
  [][(last'.msg.kind = "vinylFrames" /\ last'.msg.trackID # currentTrackID)
       => /\ m'.vinylFrameCache = m.vinylFrameCache
          /\ m'.vinylRotation = m.vinylRotation
          /\ m'.vinylAccumulator = m.vinylAccumulator
          /\ m'.artworkEncoded = m.artworkEncoded]_vars

(* C2: with no notification pending and no build in flight, the frame      *)
(* cache is empty or holds exactly the configured number of frames.        *)
C2_CacheEmptyOrConfigured ==
  Settled => \/ Len(m.vinylFrameCache) = 0
             \/ Len(m.vinylFrameCache) = config.artwork_vinyl_frames

(* C3: with no notification pending and no build in flight, the frame      *)
(* cache is empty whenever the rotation animation is disabled.             *)
C3_DisabledMeansNoCache ==
  (Settled /\ ~config.artwork_vinyl_mode) => Len(m.vinylFrameCache) = 0

(* C4: applying a fetch result that signals an error records the error and *)
(* empties the displayed artwork and the track identity.                   *)
C4_ErrorClearsArtworkAndTrack ==
  [][(last'.msg.kind = "songData" /\ last'.msg.err # "")
       => /\ m'.lastError = last'.msg.err
          /\ m'.artworkEncoded = EmptyStr
          /\ m'.lastTrackID = ""]_vars

C4_Witness ==
  /\ last.msg.kind = "songData" /\ last.msg.err # ""
  /\ m.lastError # ""
  /\ m.rawArtworkData # EmptyStr
  /\ m.songData.Title # ""

(* C5: a successful fetch result whose title|artist differs from that of   *)
(* the previous successful result resets the scroll offset to 0, the       *)
(* scroll pause to 30 ticks, the scroll tick counter to 0, and empties the *)
(* frame cache.                                                            *)
C5_TrackChangeResets ==
  [][(/\ last'.msg.kind = "songData" /\ last'.msg.err = ""
      /\ TrackIDOf(last'.msg.title, last'.msg.artist) # currentTrackID)
       => /\ m'.scrollOffset = 0
          /\ m'.scrollPause = scrollPauseTicks
          /\ m'.scrollTick = 0
          /\ m'.vinylFrameCache = <<>>]_vars

(* C6: with Sets and Gets running concurrently, the Config a Get returns   *)
(* equals, field for field, the initial snapshot or the argument of one    *)
(* single Set; it never mixes fields of two snapshots.                     *)
C6_GetReturnsOneSnapshot ==
  \A r \in Getters :
    pcS[r] = "returned" => heap[refS[r]] \in installed

C6_Witness ==
  \E r \in Getters, w \in Setters :
    /\ pcS[r] = "returned" /\ lastS = "set"
    /\ heap[refS[r]] \in {SetArg(v) : v \in Setters}
    /\ pcS[w] = "copy" /\ idxS[w] > 0 /\ idxS[w] < Len(Fields)
    /\ argS[w] # heap[refS[r]]

(* C7: writing a field of the Config a Get returned leaves the stored      *)
(* snapshot as it was, so no later Get returns the written value; the      *)
(* stored snapshot changes in steps of Set only.                           *)
C7_CopyIndependent ==
  /\ [][lastS' = "mutate" => heap'["sc"] = heap["sc"]]_vars
  /\ [][heap'["sc"] # heap["sc"] => lastS' = "set"]_vars
  /\ [](\A r \in Getters :
          pcS[r] = "returned" => heap[refS[r]].ui_max_width # ModifiedMaxWidth)

C7_Witness ==
  \E r \in Getters, q \in Getters :
    /\ r # q
    /\ heap[refS[q]].ui_max_width = ModifiedMaxWidth
    /\ pcS[r] = "returned" /\ lastS = "returned"
    /\ heap[refS[r]] = heap["sc"]

(* C8: signalling a reload never blocks the watcher of the running         *)
(* process; a notification that finds one already pending is dropped, so   *)
(* at most one is ever pending.                                            *)
C8_AtMostOnePending ==
  /\ [](configChangeChan <= 1)
  /\ []((alive /\ watcherPc = "notify") => ENABLED OnConfigChangeNotify)
  /\ [][(watcherPc = "notify" /\ watcherPc' = "idle" /\ configChangeChan = 1)
          => configChangeChan' = 1]_vars

C8_Witness == last.notify = "dropped" /\ configChangeChan = 1

(* C9: once the reloads have stopped and nothing is pending, the last      *)
(* configuration-change notification the loop handled read the snapshot    *)
(* the last reload installed (up to the a key's own flip of                *)
(* artwork.enabled).                                                       *)
C9_NewestSnapshotHandled ==
  (~unhandled /\ ~NotificationPending) => handledLatest

(* C10: each of the keys p, n and b calls Control exactly once, with       *)
(* play-pause, next and previous, and returns exactly one command, the     *)
(* data fetch itself, whether or not Control failed.                       *)
C10_ControlThenFetch ==
  [][\A k \in {"p", "n", "b"} :
       last'.msg = KeyMsg(k)
         => /\ last'.calls = <<ControlOf(k)>>
            /\ last'.cmds = <<fetchSongData(m')>>
            /\ cmds' = cmds (+) SetToBag({fetchSongData(m')})
            /\ fetchTimers' = fetchTimers]_vars

C10_Witness ==
  /\ last.msg = KeyMsg("n")
  /\ m.lastError # ""
  /\ last.calls = <<"next">>
  /\ CopiesIn(fetchSongData(m), cmds) > 0

----------------------------------------------------------------------------
(* C11: Update makes no call of the media capability itself; GetMetadata,  *)
(* GetDuration, GetPosition, GetArtwork and Control are called by          *)
(* background commands only.                                               *)
C11_UpdateCallsNoMedia ==
  last.msg.kind # "none" => last.calls = <<>>

\* The step just taken was a run of the fetch command
FetchRan == last.result.kind = "songData"

\* Every earlier fetch result has been applied and the last one was a success,
\* so the track of the previous fetch is the one the loop shows
PreviousFetchApplied ==
  /\ \A msg \in BagToSet(inbox) : msg.kind # "songData"
  /\ m.lastError = ""
  /\ m.songData.Title # ""

(* C12: a fetch that finds the player not playing and the same track as    *)
(* the previous fetch does not call GetArtwork; every fetch that delivers  *)
(* song data has called GetMetadata, GetDuration and GetPosition.          *)
C12_PausedSameTrackSkipsArtwork ==
  [][/\ (/\ FetchRan' /\ last'.result.err = ""
         /\ PreviousFetchApplied
         /\ ToLower(last'.result.status) # "playing"
         /\ TrackIDOf(last'.result.title, last'.result.artist) = currentTrackID)
        => \A i \in 1..Len(last'.calls) : last'.calls[i] # "GetArtwork"
     /\ (FetchRan' /\ last'.result.err = "")
        => SubSeq(last'.calls, 1, Len(MetadataCalls)) = MetadataCalls]_vars


(* C13: for every configuration accepted by validation, the tick interval  *)
(* scheduled while playing without error is no longer than the one         *)
(* scheduled while paused, which is no longer than the one scheduled while *)
(* an error is recorded.                                                   *)
PlayingInterval(cfg) ==
  tickCmd([m EXCEPT !.isPlaying = TRUE, !.lastError = ""], cfg).interval
PausedInterval(cfg) ==
  tickCmd([m EXCEPT !.isPlaying = FALSE, !.lastError = ""], cfg).interval
ErrorInterval(cfg) ==
  tickCmd([m EXCEPT !.lastError = "err"], cfg).interval

C13_TickRatesOrdered ==
  validateConfig(config) = {}
    => /\ PlayingInterval(config) <= PausedInterval(config)
       /\ PausedInterval(config) <= ErrorInterval(config)

(* C14: after T seconds of uninterrupted playing ticks with a complete     *)
(* frame cache, the displayed frame index is within one frame of           *)
(* floor((R/60 * N * T) mod N), whatever tick length the configuration     *)
(* allows while playing.                                                   *)
ExpectedFrame(t) ==
  ((config.artwork_vinyl_rpm * config.artwork_vinyl_frames * t) \div 60000)
    % config.artwork_vinyl_frames

FrameDistance(i, j, n) ==
  LET d == (i - j) % n IN IF d <= n - d THEN d ELSE n - d

C14_RotationFollowsClock ==
  (/\ lastK.step = "tick"
   /\ uninterrupted
   /\ Len(m.vinylFrameCache) = config.artwork_vinyl_frames)
    => FrameDistance(m.vinylRotation, ExpectedFrame(now),
                     config.artwork_vinyl_frames) <= 1

(* C15: the displayed position is the last fetched position while not      *)
(* playing, however much time has passed, and while playing the last       *)
(* fetched position plus the wall-clock time elapsed since that result     *)
(* was applied, capped at the duration when the duration is positive.      *)
C15_PositionInterpolated ==
  lastK.step = "query"
    => lastK.shown =
         IF ~fetched.playing THEN fetched.position
         ELSE LET run == fetched.position + (now - fetched.at)
              IN IF fetched.duration > 0 /\ run > fetched.duration * 1000
                 THEN fetched.duration * 1000 ELSE run

C15_Witness ==
  /\ lastK.step = "query"
  /\ fetched.playing
  /\ now > fetched.at
  /\ fetched.duration > 0
  /\ fetched.position + (now - fetched.at) > fetched.duration * 1000
  /\ lastK.shown = fetched.duration * 1000


(* C16: when the loop handles a configuration-change notification in which *)
(* the animation has just been enabled, or its frame count changed, while  *)
(* raw artwork is held for the current track and no cache of the new       *)
(* frame count is held yet, the handler starts a frame build for that      *)
(* track with the new frame count.                                         *)
JustEnabledOrResized ==
  /\ config.artwork_vinyl_mode
  /\ \/ ~seenCfg.artwork_vinyl_mode
     \/ seenCfg.artwork_vinyl_frames # config.artwork_vinyl_frames

RawHeldForCurrentTrack ==
  /\ Len(m.rawArtworkData) > 0
  /\ m.rawArtworkData[1] = currentTrackID

C16_ReloadStartsBuild ==
  [][(/\ last'.msg.kind = "configReload"
      /\ JustEnabledOrResized
      /\ RawHeldForCurrentTrack
      /\ Len(m.vinylFrameCache) # config.artwork_vinyl_frames)
     => \E i \in 1..Len(last'.cmds) :
          last'.cmds[i] = generateVinylFramesCmd(m.rawArtworkData, currentTrackID,
                                                 config.artwork_vinyl_frames)]_vars


(* C17: on a terminal that supports the graphics protocol, whatever the    *)
(* startup configuration, pressing a while artwork is disabled enables it  *)
(* and issues a fetch that asks for the artwork of the current track;      *)
(* pressing a while artwork is enabled disables it and the view shows no   *)
(* artwork.                                                                *)
ArtworkShown ==
  m.artworkEncoded # EmptyStr /\ m.supportsKitty /\ config.artwork_enabled

C17_KeyTogglesArtwork ==
  [][(last'.msg = KeyMsg("a") /\ terminalKitty)
     => /\ ~loopCfg.artwork_enabled
             => /\ config'.artwork_enabled
                /\ \E i \in 1..Len(last'.cmds) :
                     last'.cmds[i].kind = "fetch" /\ last'.cmds[i].supportsKitty
        /\ loopCfg.artwork_enabled
             => ~config'.artwork_enabled /\ ~ArtworkShown']_vars


(* C18: in auto color mode, once the loop has applied the fetch result of  *)
(* a new track for which the player had no artwork, the UI color is the    *)
(* configured manual color.                                                *)
NoArtworkForNewTrack(msg) ==
  /\ msg.kind = "songData"
  /\ msg.err = ""
  /\ msg.rawArtwork = EmptyStr
  /\ TrackIDOf(msg.title, msg.artist) # currentTrackID

C18_ColorFallsBack ==
  [][(NoArtworkForNewTrack(last'.msg) /\ config.ui_color_mode = "auto")
     => m'.color = config.ui_color]_vars


(* C19: processArtwork returns an error exactly when decoding fails, the   *)
(* empty byte slice included, and then color and encoded frame are both    *)
(* empty; when decoding succeeds it returns no error, the color is empty   *)
(* exactly when extraction was not requested or did not yield a color, and *)
(* the encoded frame is empty exactly when encoding did not yield one.     *)
DecodingFails == artIn.data.bytes # "image"

C19_ProcessArtworkResult ==
  artOut.done
    => /\ (artOut.err # "") <=> DecodingFails
       /\ DecodingFails => artOut.color = EmptyStr /\ artOut.encoded = EmptyStr
       /\ ~DecodingFails
            => /\ (artOut.color = EmptyStr)
                    <=> (~artIn.extractColor \/ artIn.data.colorOutcome # "ok")
               /\ (artOut.encoded = EmptyStr) <=> (artIn.data.encodeOutcome # "ok")
       /\ ~artIn.extractColor => artOut.color = EmptyStr

C19_Witness ==
  /\ artOut.done
  /\ ~DecodingFails
  /\ artIn.extractColor
  /\ artIn.data.colorOutcome = "err"
  /\ artOut.err = ""
  /\ artOut.color = EmptyStr
  /\ artOut.encoded # EmptyStr


(* C20: a panic inside image processing never leaves the background task   *)
(* that called it, in a data fetch and in a frame build alike: the task    *)
(* delivers its message and the process keeps running, so the process is   *)
(* alive in every reachable state.                                         *)
C20_PanicContained == alive


----------------------------------------------------------------------------
(* C21: for a base64 payload of length L the encoder writes the delete     *)
(* command for image 42 and then, when L <= 4096, one draw command with    *)
(* the placement keys and no m key; otherwise ceil(L/4096) commands, the   *)
(* first with the placement keys and m=1, the interior ones m=1, the last  *)
(* m=0, no payload longer than 4096, and the payloads in order make up the *)
(* whole payload.                                                          *)
RECURSIVE Payloads(_)
Payloads(seq) ==
  IF seq = <<>> THEN <<>> ELSE seq[1].payload \o Payloads(Tail(seq))

C21_ChunkedDraw ==
  artOut.done
    => LET L == Len(artIn.encoded)
           draws == Tail(artOut.cmds)
           n == Len(draws)
       IN /\ artOut.cmds[1] = KittyCmd("d", imageID, FALSE, 0, "", <<>>)
          /\ \A k \in 1..n : draws[k].a # "d" /\ Len(draws[k].payload) <= chunkSize
          /\ Payloads(draws) = artIn.encoded
          /\ draws[1].placement /\ draws[1].i = imageID
          /\ draws[1].c = artIn.widthColumns
          /\ IF L <= chunkSize
             THEN n = 1 /\ draws[1].more = ""
             ELSE /\ n = (L + chunkSize - 1) \div chunkSize
                  /\ draws[1].more = "1"
                  /\ \A k \in 2..(n - 1) : draws[k].more = "1" /\ ~draws[k].placement
                  /\ draws[n].more = "0" /\ ~draws[n].placement

C21_Witness ==
  /\ artOut.done
  /\ Len(artIn.encoded) = chunkSize + 1
  /\ Len(artOut.cmds) = 3
  /\ Len(artOut.cmds[3].payload) = 1


----------------------------------------------------------------------------
(* C22: scrollText("ABC", 5, offset) returns, for every offset, exactly 5  *)
(* runes: the window starting at offset of the cyclic text "ABC  •  ".     *)
IsABC == artIn.text = <<65, 66, 67>>

CyclicWindow(text, max, offset) ==
  LET fullText == RunesOf(text) \o RunesOf(scrollSeparator)
  IN [i \in 1..max |-> fullText[((offset + i - 1) % Len(fullText)) + 1]]

----------------------------------------------------------------------------
(* C24: a color returned by the primary sampling path has lightness        *)
(* between 0.30 and 0.85 and saturation at least 0.25; an image whose      *)
(* sampled pixels are all fully transparent yields nothing from the        *)
(* primary path: the k-means fallback answers, or the call fails with no   *)
(* suitable color.                                                         *)
HexVal(c) ==
  CHOOSE v \in 0..15 :
    c = <<"0", "1", "2", "3", "4", "5", "6", "7", "8", "9",
          "a", "b", "c", "d", "e", "f">>[v + 1]

\* the channels a "#rrggbb" string stands for
ParseHex(color) ==
  <<16 * HexVal(color[2]) + HexVal(color[3]),
    16 * HexVal(color[4]) + HexVal(color[5]),
    16 * HexVal(color[6]) + HexVal(color[7])>>

C24_PrimaryColorReadable ==
  artOut.done
    => /\ artOut.path = "primary"
            => LET rgb == ParseHex(artOut.color)
               IN /\ Len(artOut.color) = 7
                  /\ 10 * light2(rgb) >= 1530
                  /\ 100 * light2(rgb) <= 43350
                  /\ 4 * satNum(rgb) >= satDen(rgb)
                  /\ Max3(rgb) # Min3(rgb)
       /\ (\A k \in 1..Len(artIn.img) : artIn.img[k].a = 0)
            => /\ artOut.path = "fallback"
               /\ (artOut.err = "") <=> (artOut.color # EmptyStr)

C24_Witness ==
  /\ artOut.done
  /\ artOut.path = "primary"
  /\ Len(artIn.img) = 2
  /\ artIn.img[1].a < 32768
  /\ artOut.color = HexColor(<<230, 100, 0>>)


----------------------------------------------------------------------------
(* C25: after applyDefaultsForInvalidFields has been applied to the errors *)
(* of validateConfig, validating the configuration again reports no error. *)
C25_DefaultsPassValidation ==
  artOut.step = "revalidated" => artOut.errors = {}

C25_Witness ==
  /\ artOut.step = "revalidated"
  /\ artIn.ui_max_width = 20
  /\ artIn.artwork_padding = 20
  /\ artIn.ui_color = <<"9", "9", "9">>
  /\ artOut.cfg.artwork_padding = 16
  /\ artOut.cfg.ui_max_width = 20
  /\ artOut.cfg.ui_color = <<"2">>


----------------------------------------------------------------------------
(* C26: when the loop handles a configuration-change notification in which *)
(* artwork.width_pixels or artwork.width_columns changed while artwork is  *)
(* displayed, the handler makes the artwork be encoded again with the new  *)
(* values: it starts a frame build, or it forgets the track identity of    *)
(* the artwork so that the fetches that follow process the artwork of the  *)
(* unchanged track again.                                                  *)
WidthChanged ==
  \/ seenCfg.artwork_width_pixels # config.artwork_width_pixels
  \/ seenCfg.artwork_width_columns # config.artwork_width_columns

C26_ResizeReencodes ==
  [][(/\ last'.msg.kind = "configReload"
      /\ WidthChanged
      /\ ArtworkShown)
     => \/ m'.lastTrackID = ""
        \/ \E i \in 1..Len(last'.cmds) : last'.cmds[i].kind = "build"]_vars


----------------------------------------------------------------------------
(* C27: the record stops when playback is paused or stopped.  While the    *)
(* fetch result applied last has a status other than playing (a failed     *)
(* fetch carries no status), a tick leaves the rotation index, the         *)
(* accumulator and the displayed artwork unchanged; while it is playing    *)
(* with a complete cache, a tick moves the rotation forward by             *)
(* RPM/60 x frames x 0.1 frames.                                           *)
LastResultStatus == IF m.lastError # "" THEN "" ELSE m.songData.Status

RotationPoint(mm) == mm.vinylRotation * AccUnit + mm.vinylAccumulator

C27_RecordFollowsPlayback ==
  [][lastK'.step = "tick"
     => /\ ToLower(LastResultStatus) # "playing"
             => /\ m'.vinylRotation = m.vinylRotation
                /\ m'.vinylAccumulator = m.vinylAccumulator
                /\ m'.artworkEncoded = m.artworkEncoded
        /\ (/\ ToLower(LastResultStatus) = "playing"
            /\ config.artwork_vinyl_mode
            /\ Len(m.vinylFrameCache) = config.artwork_vinyl_frames)
             => /\ RotationPoint(m') # RotationPoint(m)
                /\ RotationPoint(m') =
                     (RotationPoint(m)
                        + config.artwork_vinyl_rpm * config.artwork_vinyl_frames)
                       % (config.artwork_vinyl_frames * AccUnit)]_vars


----------------------------------------------------------------------------
(* C28: successful fetch results for an unchanged track whose longest      *)
(* field exceeds the display width do not reset the scroll state, whether  *)
(* or not artwork was applied for the track: applying such a result leaves *)
(* the scroll offset, the scroll pause and the scroll tick as they were,   *)
(* so that the ticks in between bring the offset above zero.               *)
DisplayedTrack(mm) == TrackIDOf(mm.songData.Title, mm.songData.Artist)

TextOverflows(mm, cfg) ==
  Max2(Max2(RuneLen(mm.songData.Title), RuneLen(mm.songData.Artist)),
       RuneLen(mm.songData.Album))
    > IF ~mm.supportsKitty \/ ~cfg.artwork_enabled
      THEN cfg.text_max_length_no_art ELSE cfg.text_max_length_with_art

C28_SameTrackKeepsScroll ==
  [][(/\ lastK'.step = "result"
      /\ m.lastError = ""
      /\ m'.lastError = ""
      /\ DisplayedTrack(m') = DisplayedTrack(m)
      /\ TextOverflows(m, config))
     => /\ m'.scrollOffset = m.scrollOffset
        /\ m'.scrollPause = m.scrollPause
        /\ m'.scrollTick = m.scrollTick]_vars


----------------------------------------------------------------------------
(* C29: whenever artwork is displayed and no error is recorded, it was     *)
(* encoded from artwork fetched for the displayed track (same              *)
(* title|artist); after a change to a track for which no artwork was       *)
(* obtained, the artwork of the previous track is not on display.          *)
C29_ArtworkOfDisplayedTrack ==
  (ArtworkShown /\ m.lastError = "") => m.artworkEncoded[1] = currentTrackID


----------------------------------------------------------------------------
(* C30: after a failed fetch result has cleared the displayed artwork, a   *)
(* tick handled while the error is still recorded leaves the displayed     *)
(* artwork empty.                                                          *)
C30_ErrorKeepsArtworkEmpty ==
  [][(/\ lastK'.step = "tick"
      /\ m.lastError # ""
      /\ m.artworkEncoded = EmptyStr)
     => m'.artworkEncoded = EmptyStr]_vars


----------------------------------------------------------------------------
(* C31: with a positive duration the progress fraction the view computes   *)
(* is at most 1, so the filled width of the progress bar does not exceed   *)
(* the bar width (the rest of the bar has no negative length), whatever    *)
(* position and duration the backend reported, playing or paused.          *)
C31_ProgressAtMostOne ==
  (lastK.step = "query" /\ duration > 0)
    => /\ lastK.shown <= duration * 1000
       /\ filledWidth(config, lastK.shown) <= config.ui_max_width - 17


----------------------------------------------------------------------------
(* C32: with two data fetches in flight, the result of the fetch issued    *)
(* earlier does not overwrite what the result of the fetch issued later    *)
(* has written: handling a result older than one already applied leaves    *)
(* the metadata, the position and the artwork as they are.                 *)
C32_OlderResultDropped ==
  [][(artOut'.applied # 0 /\ artOut'.applied < artOut.newest)
     => /\ m'.songData = m.songData
        /\ lastPosition' = lastPosition
        /\ m'.artworkEncoded = m.artworkEncoded]_vars


----------------------------------------------------------------------------
(* C33: the artwork toggle never overwrites a snapshot installed by a      *)
(* concurrent live reload: once the a key has been handled, the stored     *)
(* snapshot holds every value of the file loaded last, other than          *)
(* artwork.enabled.                                                        *)
C33_ToggleKeepsReload ==
  loopPc = "idle" => SameButEnabled(config, reloadCfg)


----------------------------------------------------------------------------
(* C34: at every moment exactly one UI tick timer, exactly one data-fetch  *)
(* timer and exactly one configuration-notification waiter are             *)
(* outstanding (a waiter that has received its notification counts until   *)
(* the loop has handled the configReloadMsg it returned).                  *)
C34_OneOfEachTimer ==
  /\ tickTimers = 1
  /\ fetchTimers = 1
  /\ watchers + CopiesIn(configReloadMsg, inbox) = 1

C34_Witness ==
  /\ last.msg.kind = "configReload"
  /\ Count(last.cmds, "watch") = 1
  /\ Count(last.cmds, "build") = 1
  /\ watchers = 1
  /\ m.lastError = ""


----------------------------------------------------------------------------
(* C35: all frames of an installed Animation Frame Cache were encoded      *)
(* under the same configuration snapshot: they have the same pixel width   *)
(* and the same column width, even if a live reload happened while the     *)
(* build was running.                                                      *)
C35_FramesOfOneSnapshot ==
  \A i, j \in 1..Len(m.vinylFrameCache) :
    /\ m.vinylFrameCache[i].widthPixels = m.vinylFrameCache[j].widthPixels
    /\ m.vinylFrameCache[i].widthColumns = m.vinylFrameCache[j].widthColumns

----------------------------------------------------------------------------
(* C36: on a tick handled while the longest of title, artist and album is  *)
(* longer than the display width, the scroll offset changes only if the    *)
(* pause counter was 0 and the tick counter, as the tick counted it, is a  *)
(* multiple of 3; it then goes up by exactly 1, or back to 0 together with *)
(* a fresh pause of 30 ticks when it reaches the longest length plus 5.    *)
(* On a tick handled while the longest field fits, the offset and the      *)
(* pause are 0 afterwards.                                                 *)

LongestLen(mm) ==
  Max2(Max2(RuneLen(mm.songData.Title), RuneLen(mm.songData.Artist)),
       RuneLen(mm.songData.Album))

C36_ScrollAdvance ==
  [][lastK'.step = "tick" =>
       IF TextOverflows(m, config)
       THEN LET due == m.scrollPause = 0 /\ m'.scrollTick % 3 = 0
                loops == m.scrollOffset + 1 >= LongestLen(m) + 5
            IN /\ m'.scrollOffset # m.scrollOffset => due
               /\ (due /\ ~loops) => /\ m'.scrollOffset = m.scrollOffset + 1
                                     /\ m'.scrollPause = 0
               /\ (due /\ loops) => /\ m'.scrollOffset = 0
                                    /\ m'.scrollPause = 30
       ELSE m'.scrollOffset = 0 /\ m'.scrollPause = 0]_vars

\* the offset has gone through one loop of Red and a fresh pause has begun
C36_Witness ==
  /\ lastK.step = "tick"
  /\ m.songData.Title = "Red"
  /\ m.scrollTick = 54
  /\ m.scrollOffset = 0
  /\ m.scrollPause = scrollPauseTicks

----------------------------------------------------------------------------
(* C37: when the file watcher reads a configuration that fails validation, *)
(* the stored snapshot stays what it was, no change notification is sent   *)
(* or left pending to be sent, no reload message reaches the loop, and the *)
(* snapshot the loop goes on with is a valid one.                          *)

C37_InvalidReloadIgnored ==
  [][(events' = events + 1 /\ last'.notify = "rejected")
     => /\ config' = config
        /\ validateConfig(config') = {}
        /\ configChangeChan' = configChangeChan
        /\ watcherPc' = "idle"
        /\ inbox' = inbox
        /\ m' = m]_vars

\* a file with vinyl_rpm 0 was rejected while a vinyl-mode snapshot is stored
C37_Witness ==
  /\ last.notify = "rejected"
  /\ config.artwork_vinyl_mode
  /\ config.artwork_vinyl_rpm > 0
  /\ configChangeChan = 0
  /\ watcherPc = "idle"

----------------------------------------------------------------------------
(* C38: every fetch tick the loop handles, with or without a recorded      *)
(* error, returns the next fetch timer and one fetch, so one fetch timer   *)
(* is always armed; and a successful fetch result handled while an error   *)
(* is recorded clears the error and stores the metadata it carries.  No    *)
(* key press is involved in either step.                                   *)

----------------------------------------------------------------------------
(* C39: the rotation index is always at least 0 and below the configured   *)
(* frame count, and the accumulator is always in [0, 1).  As stated this   *)
(* fails: the index keeps its value when the snapshot gets a smaller frame *)
(* count, until the next cache is installed.                               *)

C39_IndexBelowConfiguredCount ==
  /\ m.vinylRotation \in 0..(config.artwork_vinyl_frames - 1)
  /\ m.vinylAccumulator \in 0..(AccUnit - 1)

(* C39, amended: whenever the Animation Frame Cache holds frames, the      *)
(* rotation index is an index of the cache, so the frame the tick handler  *)
(* reads is in bounds, as is the first frame the build-result handler      *)
(* reads from an accepted result; the accumulator is always in [0, 1); the *)
(* rotation index may be at or above the configured frame count only while *)
(* the cache does not have the configured length, when no tick reads it.   *)

C39_CacheReadsInBounds ==
  /\ m.vinylRotation >= 0
  /\ Len(m.vinylFrameCache) > 0 => m.vinylRotation < Len(m.vinylFrameCache)
  /\ m.vinylAccumulator \in 0..(AccUnit - 1)
  /\ (last.msg.kind = "vinylFrames" /\ vinylFramesAccepted(m, last.msg))
       => Len(last.msg.frames) > 0
  /\ m.vinylRotation >= config.artwork_vinyl_frames
       => Len(m.vinylFrameCache) # config.artwork_vinyl_frames

\* after a reload to 2 frames, a cache of 2 frames is installed and a tick
\* has turned it
C39_Witness ==
  /\ last.msg.kind = "tick"
  /\ config.artwork_vinyl_frames = 2
  /\ Len(m.vinylFrameCache) = 2
  /\ m.vinylRotation = 1
  /\ m.isPlaying

----------------------------------------------------------------------------
(* C40: the color extractor is deterministic: whatever color a call has    *)
(* returned for an image, every call on the same image returns that color, *)
(* also when several candidates share the highest score.                   *)

C40_SameImageSameColor ==
  artOut.done
    => \A res \in dominantColors(artIn.img, artIn.kmeans) :
         /\ res.color = artOut.color
         /\ res.err = artOut.err

============================================================================
